---------------------------- MODULE Spec2Model ----------------------------
(***************************************************************************)
(* A model of the disassembly listing generator (src/generator):           *)
(*   disassembly.py  address index, text wrapper, content and comment      *)
(*                   renderers, block aligner                              *)
(*   glossary.py     glossary linker                                       *)
(*   build.py        address links in documents                            *)
(*                                                                         *)
(* Text is a sequence of one-character strings.  Rendered markup is a      *)
(* sequence whose elements are either one character of escaped text (an    *)
(* entity such as &amp; is spelled out character by character) or one      *)
(* whole tag emitted by the renderer, kept as a single string.             *)
(***************************************************************************)
EXTENDS Integers, Sequences, FiniteSets, TLC

VARIABLES
    valid_addrs,    \* process_disassembly: set(item_by_addr)
    resolve_in,     \* the addr argument of the last _resolve_addr call
    resolve_out,    \* what that call returned
    resolve_pc,     \* "idle" before a call, "done" after it
    comment_raw,   \* _linkify_comment_text: the raw text argument
    comment_html,   \* the markup it returned
    linkify_pc,     \* "idle" while the text is typed, "done" after the call
    wrap_args,      \* _wrap_text: text, first_line_budget, continuation_indent, max_width
    wrap,           \* the locals of the running call, and where it stands
    break_args,     \* _find_break_position: word and budget
    break_pos,      \* the position it returned
    break_pc,       \* "idle" while the word is typed, "done" after the call
    glossary_md,    \* parse_glossary: the lines of md_text
    glossary,       \* what it returned
    parse_pc,       \* "idle" while the text is written, "done" after the call
    html_doc,       \* a rendered document, as its sequence of tags and characters
    links,          \* the link specs of the document (glossary_links, address_links)
    link_pc,        \* "idle", or the function that has run: "find", "apply"
    find_pattern,   \* _find_text_occurrences: the pattern argument
    find_matches,   \* and the spans it returned
    glossary_out,   \* apply_glossary_links: replacements built, and the text returned
    address_out,    \* _apply_address_links: replacements built, and the text returned
    operand_item,   \* _linkify_operand: the code item whose operand is rendered
    operand_valid,  \* its valid_addrs argument
    operand_out,   \* the markup it returned
    operand_pc,     \* "idle" while the item is built, "done" after the call
    data_item,      \* _render_content: a byte or word item
    data_width,     \* its max_width argument
    data_html,      \* the markup it returned
    data_pc,        \* "idle" while the values are added, "done" after the call
    listing,        \* process_disassembly: the data argument
    listing_out,    \* the lines before alignment and the sections returned
    listing_pc      \* "idle" while the listing is built, "done" after the call

varsResolve == <<valid_addrs, resolve_in, resolve_out, resolve_pc>>

varsLinkify == <<comment_raw, comment_html, linkify_pc>>

varsWrap == <<wrap_args, wrap>>

varsBreak == <<break_args, break_pos, break_pc>>

varsParse == <<glossary_md, glossary, parse_pc>>

varsDoc == <<html_doc, links, link_pc, find_pattern, find_matches,
             glossary_out, address_out>>

varsOperand == <<operand_item, operand_valid, operand_out, operand_pc>>

varsData == <<data_item, data_width, data_html, data_pc>>

varsListing == <<listing, listing_out, listing_pc>>

vars == <<varsResolve, varsLinkify, varsWrap, varsBreak, varsParse, varsDoc, varsOperand, varsData,
          varsListing>>

(***************************************************************************)
(* Bounds of the model.                                                    *)
(***************************************************************************)
MaxAddr == 5

MaxCommentLen == 6

MaxWrapLen == 5

MaxDocLen == 5

MaxLinkedDocLen == 3

MaxLinks == 2

(***************************************************************************)
(* Python helpers.                                                         *)
(***************************************************************************)
\* None, as returned by _resolve_addr: no address is negative.
NoneAddr == -1

Min(a, b) == IF a <= b THEN a ELSE b

Max(a, b) == IF a >= b THEN a ELSE b

SetMin(S) == CHOOSE x \in S : \A y \in S : x <= y

SetMax(S) == CHOOSE x \in S : \A y \in S : x >= y

\* sorted(S) of a set of integers
RECURSIVE sorted(_)
sorted(S) ==
    IF S = {} THEN <<>>
    ELSE LET m == SetMin(S) IN <<m>> \o sorted(S \ {m})

\* bisect.bisect_right(a, x, lo, hi): the binary search of the bisect module
RECURSIVE bisect_right_from(_, _, _, _)
bisect_right_from(a, x, lo, hi) ==
    IF lo < hi
    THEN LET mid == (lo + hi) \div 2
         IN  IF x < a[mid + 1]           \* a is 1-based here, 0-based in Python
             THEN bisect_right_from(a, x, lo, mid)
             ELSE bisect_right_from(a, x, mid + 1, hi)
    ELSE lo

bisect_right(a, x) == bisect_right_from(a, x, 0, Len(a))

\* d.get(key, default) of a dict, a record whose fields are its keys
Get(d, key, default) == IF key \in DOMAIN d THEN d[key] ELSE default

\* text[a:b] with 0-based Python offsets, as a 1-based sequence
Slice(s, a, b) == SubSeq(s, a + 1, b)

RECURSIVE Flatten(_)
Flatten(ss) ==
    IF ss = <<>> THEN <<>>
    ELSE IF Len(ss) = 1 THEN ss[1]
    ELSE LET half == Len(ss) \div 2
         IN  Flatten(SubSeq(ss, 1, half)) \o Flatten(SubSeq(ss, half + 1, Len(ss)))

Digits == {"0", "1", "2", "3", "4", "5", "6", "7", "8", "9"}

UpperLetters ==
    {"A", "B", "C", "D", "E", "F", "G", "H", "I", "J", "K", "L", "M",
     "N", "O", "P", "Q", "R", "S", "T", "U", "V", "W", "X", "Y", "Z"}

LowerLetters ==
    {"a", "b", "c", "d", "e", "f", "g", "h", "i", "j", "k", "l", "m",
     "n", "o", "p", "q", "r", "s", "t", "u", "v", "w", "x", "y", "z"}

Punctuation ==
    {" ", "&", "#", ";", "<", ">", "'", "\"", "|", "_", "/", "-", ",",
     ".", "*", "+", "(", ")", ":", "=", "\n"}

UpperSeq == <<"A", "B", "C", "D", "E", "F", "G", "H", "I", "J", "K", "L", "M",
              "N", "O", "P", "Q", "R", "S", "T", "U", "V", "W", "X", "Y", "Z">>

LowerSeq == <<"a", "b", "c", "d", "e", "f", "g", "h", "i", "j", "k", "l", "m",
              "n", "o", "p", "q", "r", "s", "t", "u", "v", "w", "x", "y", "z">>

\* "".join of characters, as one string
RECURSIVE Join(_)
Join(chars) ==
    IF chars = <<>> THEN ""
    ELSE IF Len(chars) = 1 THEN chars[1]
    ELSE LET half == Len(chars) \div 2
         IN  Join(SubSeq(chars, 1, half)) \o Join(SubSeq(chars, half + 1, Len(chars)))

\* every single character of text; any other element of markup is a tag
Characters ==
    Digits \cup UpperLetters \cup LowerLetters \cup Punctuation
    \cup {"!", "$", "%", "?", "@", "[", "\\", "]", "^", "{", "}", "~", "U+0060",
           "U+2190", "U+2193"}

IsTag(tok) == tok \notin Characters

\* the character class [0-9A-Fa-f]
HexChars ==
    Digits \cup {"A", "B", "C", "D", "E", "F"} \cup {"a", "b", "c", "d", "e", "f"}

HexDigitString == <<"0", "1", "2", "3", "4", "5", "6", "7",
                    "8", "9", "A", "B", "C", "D", "E", "F">>

\* int(c, 16) of one hex digit
HexVal(c) ==
    CASE c \in {"a", "A"} -> 10
      [] c \in {"b", "B"} -> 11
      [] c \in {"c", "C"} -> 12
      [] c \in {"d", "D"} -> 13
      [] c \in {"e", "E"} -> 14
      [] c \in {"f", "F"} -> 15
      [] OTHER -> CHOOSE n \in 0..9 : HexDigitString[n + 1] = c

\* int(hex_digits, 16)
RECURSIVE int16(_)
int16(ds) ==
    IF ds = <<>> THEN 0
    ELSE 16 * int16(SubSeq(ds, 1, Len(ds) - 1)) + HexVal(ds[Len(ds)])

\* f"{n:02X}" and f"{n:04X}" as one string (n < 65536)
Hex2(n) == HexDigitString[((n \div 16) % 16) + 1] \o HexDigitString[(n % 16) + 1]

Hex4(n) == Hex2((n \div 256) % 256) \o Hex2(n % 256)

\* f"{n:04X}" as characters
Hex4Chars(n) ==
    <<HexDigitString[((n \div 4096) % 16) + 1], HexDigitString[((n \div 256) % 16) + 1],
      HexDigitString[((n \div 16) % 16) + 1], HexDigitString[(n % 16) + 1]>>

(***************************************************************************)
(* markupsafe.escape and html.unescape, character by character.            *)
(***************************************************************************)
EscapeChar(c) ==
    CASE c = "&" -> <<"&", "a", "m", "p", ";">>
      [] c = "<" -> <<"&", "l", "t", ";">>
      [] c = ">" -> <<"&", "g", "t", ";">>
      [] c = "'" -> <<"&", "#", "3", "9", ";">>
      [] c = "\"" -> <<"&", "#", "3", "4", ";">>
      [] OTHER -> <<c>>

escape(text) == Flatten([k \in 1..Len(text) |-> EscapeChar(text[k])])

StartsWith(s, prefix) ==
    Len(s) >= Len(prefix) /\ SubSeq(s, 1, Len(prefix)) = prefix

\* the entities that escape and the renderers produce, and what they stand for
Entities ==
    << <<<<"&", "a", "m", "p", ";">>, "&">>,
       <<<<"&", "l", "t", ";">>, "<">>,
       <<<<"&", "g", "t", ";">>, ">">>,
       <<<<"&", "#", "3", "9", ";">>, "'">>,
       <<<<"&", "#", "3", "4", ";">>, "\"">>,
       <<<<"&", "q", "u", "o", "t", ";">>, "\"">> >>

\* the entities that s holds at offset i (from 1): none or one
EntityAt(s, i) ==
    {e \in 1..Len(Entities) : SubSeq(s, i, Min(Len(s), i + Len(Entities[e][1]) - 1))
                              = Entities[e][1]}

\* html.unescape, for these entities: each is replaced, scanning from the left;
\* an entity holds no "&" after its first character, so no two overlap
unescape(s) ==
    LET width(i)  == IF EntityAt(s, i) = {} THEN 1
                     ELSE Len(Entities[CHOOSE e \in EntityAt(s, i) : TRUE][1])
        inside(i) == \E j \in Max(1, i - 5)..(i - 1) : width(j) > i - j
        kept      == SelectSeq([i \in 1..Len(s) |-> i], LAMBDA i : ~inside(i))
    IN  [k \in 1..Len(kept) |->
            IF EntityAt(s, kept[k]) = {} THEN s[kept[k]]
            ELSE Entities[CHOOSE e \in EntityAt(s, kept[k]) : TRUE][2]]

\* re.sub(r"<[^>]+>", "", markup): escaped text holds no "<", so this removes
\* exactly the tags
StripTags(markup) == SelectSeq(markup, LAMBDA tok : ~IsTag(tok))

\* the text a browser shows for the markup
VisibleText(markup) == unescape(StripTags(markup))

(***************************************************************************)
(* disassembly.py: the address index.                                      *)
(***************************************************************************)
\* _resolve_addr with the test of the index off by one ("idx > 0")
resolve_addr_strict_idx(addr, valid, sorted_addrs) ==
    IF addr \in valid THEN addr
    ELSE LET idx == bisect_right(sorted_addrs, addr) - 1
         IN  IF idx > 0 THEN sorted_addrs[idx + 1] ELSE NoneAddr

_resolve_addr(addr, valid, sorted_addrs) ==
    IF addr \in valid THEN addr
    ELSE LET idx == bisect_right(sorted_addrs, addr) - 1
         IN  IF idx >= 0 THEN sorted_addrs[idx + 1] ELSE NoneAddr

(***************************************************************************)
(* disassembly.py: the text wrapper.                                       *)
(***************************************************************************)
isalpha(c) == c \in UpperLetters \cup LowerLetters

isdigit(c) == c \in Digits

\* text.split(" "): the words between single spaces, empty words included
RECURSIVE split(_)
split(text) ==
    LET spaces == {i \in 1..Len(text) : text[i] = " "}
    IN  IF spaces = {} THEN <<text>>
        ELSE LET i == SetMin(spaces)
             IN  <<SubSeq(text, 1, i - 1)>> \o split(SubSeq(text, i + 1, Len(text)))

\* for i in range(hi, 0, -1): the first i at which word[i] is in "|_/-", else -1
RECURSIVE last_separator(_, _)
last_separator(word, i) ==
    IF i <= 0 THEN -1
    ELSE IF word[i + 1] \in {"|", "_", "/", "-"} THEN i
    ELSE last_separator(word, i - 1)

\* the transition loop comparing isalpha only
RECURSIVE last_alpha_transition(_, _)
last_alpha_transition(word, i) ==
    IF i <= 0 THEN -1
    ELSE LET a == word[i]
             b == word[i + 1]
         IN  IF isalpha(a) # isalpha(b) THEN i
             ELSE last_alpha_transition(word, i - 1)

\* for i in range(hi, 0, -1): the first i at which word[i - 1] and word[i]
\* differ in class, else -1
RECURSIVE last_transition(_, _)
last_transition(word, i) ==
    IF i <= 0 THEN -1
    ELSE LET a == word[i]
             b == word[i + 1]
         IN  IF (isalpha(a) # isalpha(b)) \/ (isdigit(a) # isdigit(b)) THEN i
             ELSE last_transition(word, i - 1)

_find_break_position(word, budget0) ==
    LET budget == IF budget0 <= 0 THEN 1 ELSE budget0
        hi     == Min(budget, Len(word)) - 1
        sep    == last_separator(word, hi)
        best   == IF sep > 0 THEN sep + 1 ELSE -1
        trans  == last_transition(word, hi)
    IN  IF best > 0 THEN best
        ELSE IF trans > 0 THEN trans
        ELSE Min(budget, Len(word))

\* the locals of _wrap_text at its entry, continuation_budget without max(1, ...)
WrapEntryUnclamped(text, first_line_budget, continuation_indent, max_width) ==
    [pc                  |-> "for",
     words               |-> split(text),
     result_lines        |-> <<>>,
     current             |-> <<>>,
     word                |-> <<>>,
     budget              |-> 0,
     first_line_budget   |-> first_line_budget,
     continuation_budget |-> max_width - continuation_indent,
     result              |-> <<>>]

\* the locals of _wrap_text at its entry
WrapEntry(text, first_line_budget, continuation_indent, max_width) ==
    [pc                  |-> "for",
     words               |-> split(text),
     result_lines        |-> <<>>,
     current             |-> <<>>,
     word                |-> <<>>,
     budget              |-> 0,
     first_line_budget   |-> first_line_budget,
     continuation_budget |-> Max(1, max_width - continuation_indent),
     result              |-> <<>>]

\* _wrap_text without "budget = continuation_budget" after the line is flushed
WrapStepKeepBudget(w) ==
    IF w.pc = "for"
    THEN IF w.words = <<>>
         THEN LET lines == IF w.current # <<>>
                           THEN Append(w.result_lines, w.current)
                           ELSE w.result_lines
              IN  [w EXCEPT !.pc = "done",
                            !.result_lines = lines,
                            !.result = IF lines # <<>> THEN lines ELSE << <<>> >>]
         ELSE LET word      == Head(w.words)
                  budget    == IF w.result_lines = <<>> THEN w.first_line_budget
                               ELSE w.continuation_budget
                  candidate == w.current
                               \o (IF w.current # <<>> THEN <<" ">> ELSE <<>>) \o word
              IN  IF Len(candidate) <= budget
                  THEN [w EXCEPT !.words = Tail(w.words), !.current = candidate]
                  ELSE IF w.current # <<>>
                  THEN [w EXCEPT !.pc = "while", !.words = Tail(w.words),
                                 !.result_lines = Append(w.result_lines, w.current),
                                 !.current = <<>>, !.word = word,
                                 !.budget = budget]
                  ELSE [w EXCEPT !.pc = "while", !.words = Tail(w.words),
                                 !.word = word, !.budget = budget]
    ELSE IF Len(w.word) > w.budget
         THEN LET pos == _find_break_position(w.word, w.budget)
              IN  [w EXCEPT !.result_lines = Append(w.result_lines, Slice(w.word, 0, pos)),
                            !.word = Slice(w.word, pos, Len(w.word)),
                            !.budget = w.continuation_budget]
         ELSE [w EXCEPT !.pc = "for", !.current = w.word]

\* _wrap_text returning result_lines without the "or [\"\"]" default
WrapStepNoDefault(w) ==
    IF w.pc = "for"
    THEN IF w.words = <<>>
         THEN LET lines == IF w.current # <<>>
                           THEN Append(w.result_lines, w.current)
                           ELSE w.result_lines
              IN  [w EXCEPT !.pc = "done",
                            !.result_lines = lines,
                            !.result = lines]
         ELSE LET word      == Head(w.words)
                  budget    == IF w.result_lines = <<>> THEN w.first_line_budget
                               ELSE w.continuation_budget
                  candidate == w.current
                               \o (IF w.current # <<>> THEN <<" ">> ELSE <<>>) \o word
              IN  IF Len(candidate) <= budget
                  THEN [w EXCEPT !.words = Tail(w.words), !.current = candidate]
                  ELSE IF w.current # <<>>
                  THEN [w EXCEPT !.pc = "while", !.words = Tail(w.words),
                                 !.result_lines = Append(w.result_lines, w.current),
                                 !.current = <<>>, !.word = word,
                                 !.budget = w.continuation_budget]
                  ELSE [w EXCEPT !.pc = "while", !.words = Tail(w.words),
                                 !.word = word, !.budget = budget]
    ELSE IF Len(w.word) > w.budget
         THEN LET pos == _find_break_position(w.word, w.budget)
              IN  [w EXCEPT !.result_lines = Append(w.result_lines, Slice(w.word, 0, pos)),
                            !.word = Slice(w.word, pos, Len(w.word)),
                            !.budget = w.continuation_budget]
         ELSE [w EXCEPT !.pc = "for", !.current = w.word]

\* one step of _wrap_text: at "for" the head of the for loop takes the next
\* word (or the function returns), at "while" the forced-split loop tests its
\* condition and runs its body once or leaves
WrapStep(w) ==
    IF w.pc = "for"
    THEN IF w.words = <<>>
         THEN LET lines == IF w.current # <<>>
                           THEN Append(w.result_lines, w.current)
                           ELSE w.result_lines
              IN  [w EXCEPT !.pc = "done",
                            !.result_lines = lines,
                            !.result = IF lines # <<>> THEN lines ELSE << <<>> >>]
         ELSE LET word      == Head(w.words)
                  budget    == IF w.result_lines = <<>> THEN w.first_line_budget
                               ELSE w.continuation_budget
                  candidate == w.current
                               \o (IF w.current # <<>> THEN <<" ">> ELSE <<>>) \o word
              IN  IF Len(candidate) <= budget
                  THEN [w EXCEPT !.words = Tail(w.words), !.current = candidate]
                  ELSE IF w.current # <<>>
                  THEN [w EXCEPT !.pc = "while", !.words = Tail(w.words),
                                 !.result_lines = Append(w.result_lines, w.current),
                                 !.current = <<>>, !.word = word,
                                 !.budget = w.continuation_budget]
                  ELSE [w EXCEPT !.pc = "while", !.words = Tail(w.words),
                                 !.word = word, !.budget = budget]
    ELSE IF Len(w.word) > w.budget
         THEN LET pos == _find_break_position(w.word, w.budget)
              IN  [w EXCEPT !.result_lines = Append(w.result_lines, Slice(w.word, 0, pos)),
                            !.word = Slice(w.word, pos, Len(w.word)),
                            !.budget = w.continuation_budget]
         ELSE [w EXCEPT !.pc = "for", !.current = w.word]

RECURSIVE WrapRun(_)
WrapRun(w) == IF w.pc = "done" THEN w.result ELSE WrapRun(WrapStep(w))

_wrap_text(text, first_line_budget, continuation_indent, max_width) ==
    WrapRun(WrapEntry(text, first_line_budget, continuation_indent, max_width))

(***************************************************************************)
(* disassembly.py: address references in comment text.                     *)
(***************************************************************************)
AnchorOpen(target) == "<a href=\"#addr-" \o Hex4(target) \o "\">"

AnchorClose == "</a>"

\* the length of the run of hex digits that starts at text[i] (1-based)
RECURSIVE HexRun(_, _)
HexRun(text, i) ==
    IF i <= Len(text) /\ text[i] \in HexChars THEN 1 + HexRun(text, i + 1) ELSE 0

\* _COMMENT_ADDR_RE = (?<!#)&([0-9A-Fa-f]{4,}) matches at text[i] (1-based)
CommentAddrMatchAt(text, i) ==
    /\ i <= Len(text)
    /\ text[i] = "&"
    /\ (i > 1 => text[i - 1] # "#")
    /\ HexRun(text, i + 1) >= 4

\* the loop over _COMMENT_ADDR_RE.finditer(text): i is the place the scan has
\* reached (1-based), last_end the end of the last match (0-based offset)
RECURSIVE linkify_from(_, _, _, _, _)
linkify_from(text, i, last_end, valid, sorted_addrs) ==
    IF i > Len(text) THEN escape(Slice(text, last_end, Len(text)))
    ELSE IF CommentAddrMatchAt(text, i)
    THEN LET run        == HexRun(text, i + 1)
             hex_digits == SubSeq(text, i + 1, i + run)
             m_start    == i - 1
             m_end      == i + run
             target     == _resolve_addr(int16(hex_digits), valid, sorted_addrs)
             before     == escape(Slice(text, last_end, m_start))
             piece      == IF Len(hex_digits) = 4 /\ target # NoneAddr
                           THEN <<AnchorOpen(target)>>
                                \o <<"&", "a", "m", "p", ";">> \o hex_digits
                                \o <<AnchorClose>>
                           ELSE escape(Slice(text, m_start, m_end))
         IN  before \o piece \o linkify_from(text, m_end + 1, m_end, valid, sorted_addrs)
    ELSE linkify_from(text, i + 1, last_end, valid, sorted_addrs)

\* _linkify_comment_text linking hex runs of 4 or more digits by their first 4
linkify_any_run(text, valid, sorted_addrs) ==
    LET RECURSIVE go(_, _)
        go(i, last_end) ==
            IF i > Len(text) THEN escape(Slice(text, last_end, Len(text)))
            ELSE IF CommentAddrMatchAt(text, i)
            THEN LET run    == HexRun(text, i + 1)
                     target == _resolve_addr(int16(SubSeq(text, i + 1, i + 4)),
                                             valid, sorted_addrs)
                     piece  == IF target # NoneAddr
                               THEN <<AnchorOpen(target)>>
                                    \o <<"&", "a", "m", "p", ";">>
                                    \o SubSeq(text, i + 1, i + run)
                                    \o <<AnchorClose>>
                               ELSE escape(SubSeq(text, i, i + run))
                 IN  escape(Slice(text, last_end, i - 1)) \o piece \o go(i + run + 1, i + run)
            ELSE go(i + 1, last_end)
    IN  go(1, 0)

_linkify_comment_text(text, valid, sorted_addrs) ==
    linkify_from(text, 1, 0, valid, sorted_addrs)

(***************************************************************************)
(* disassembly.py: the content renderer.                                   *)
(***************************************************************************)
CONTENT_MAX_WIDTH == 64

RELOCATED_MAX_WIDTH == 58

\* str.upper
UpperChar(c) ==
    IF c \in LowerLetters
    THEN UpperSeq[CHOOSE k \in 1..26 : LowerSeq[k] = c]
    ELSE c

upper(text) == [k \in 1..Len(text) |-> UpperChar(text[k])]

\* " " * n
Spaces(n) == [k \in 1..n |-> " "]

\* the offset of the first occurrence of sub in text (str.find), or -1
find(text, sub) ==
    LET at == {i \in 0..(Len(text) - Len(sub)) : Slice(text, i, i + Len(sub)) = sub}
    IN  IF at = {} THEN -1 ELSE SetMin(at)

\* str(n) of a number that is not negative
RECURSIVE str(_)
str(n) ==
    IF n < 10 THEN <<HexDigitString[n + 1]>>
    ELSE str(n \div 10) \o <<HexDigitString[(n % 10) + 1]>>

Hex2Chars(n) ==
    <<HexDigitString[((n \div 16) % 16) + 1], HexDigitString[(n % 16) + 1]>>

\* f"{value:08b}"
Bin8Chars(value) ==
    [k \in 1..8 |-> IF (value \div (2 ^ (8 - k))) % 2 = 1 THEN "1" ELSE "0"]

\* _CONTROL_CHARS for the keys 0 to 32, each name spelled out; key 127 is DEL
ControlNames ==
    <<<<"N", "U", "L">>, <<"S", "O", "H">>, <<"S", "T", "X">>,
      <<"E", "T", "X">>, <<"E", "O", "T">>, <<"E", "N", "Q">>,
      <<"A", "C", "K">>, <<"B", "E", "L">>, <<"B", "S">>,
      <<"H", "T">>, <<"L", "F">>, <<"V", "T">>,
      <<"F", "F">>, <<"C", "R">>, <<"S", "O">>,
      <<"S", "I">>, <<"D", "L", "E">>, <<"D", "C", "1">>,
      <<"D", "C", "2">>, <<"D", "C", "3">>, <<"D", "C", "4">>,
      <<"N", "A", "K">>, <<"S", "Y", "N">>, <<"E", "T", "B">>,
      <<"C", "A", "N">>, <<"E", "M">>, <<"S", "U", "B">>,
      <<"E", "S", "C">>, <<"F", "S">>, <<"G", "S">>,
      <<"R", "S">>, <<"U", "S">>, <<"S", "P">>>>

\* chr(value) for 33 <= value <= 95
PrintableLow ==
    <<"!", "\"", "#", "$", "%", "&", "'", "(", ")", "*", "+", ",", "-", ".", "/",
      "0", "1", "2", "3", "4", "5", "6", "7", "8", "9", ":", ";", "<", "=", ">",
      "?", "@", "A", "B", "C", "D", "E", "F", "G", "H", "I", "J", "K", "L", "M",
      "N", "O", "P", "Q", "R", "S", "T", "U", "V", "W", "X", "Y", "Z", "[", "\\",
      "]", "^", "_">>

\* chr(value) for 97 <= value <= 126
PrintableHigh ==
    <<"a", "b", "c", "d", "e", "f", "g", "h", "i", "j", "k", "l", "m", "n", "o",
      "p", "q", "r", "s", "t", "u", "v", "w", "x", "y", "z", "{", "|", "}", "~">>

\* chr(96): a string of TLA+ cannot hold a lone grave accent, so it is named
GraveAccent == "U+0060"

chr(value) ==
    IF value < 96 THEN PrintableLow[value - 32]
    ELSE IF value = 96 THEN GraveAccent
    ELSE PrintableHigh[value - 96]

_immediate_tooltip(value) ==
    LET parts == str(value) \o <<" ", " ", "&">> \o Hex2Chars(value)
                 \o <<" ", " ", "%">> \o Bin8Chars(value)
    IN  IF value <= 32 THEN parts \o <<" ", " ">> \o ControlNames[value + 1]
        ELSE IF value = 127 THEN parts \o <<" ", " ", "D", "E", "L">>
        ELSE IF 33 <= value /\ value <= 126
        THEN parts \o <<" ", " ", "'", chr(value), "'">>
        ELSE parts

_is_immediate(operand, item) ==
    /\ operand # <<>>
    /\ Head(operand) = "#"
    /\ Len(Get(item, "bytes", <<>>)) = 2

\* the tags of the content line
OpcodeOpen == "<span class=\"opcode\">"

OperandOpen == "<span class=\"operand\">"

DirectiveOpen == "<span class=\"directive\">"

StringOpen == "<span class=\"string\">"

SpanClose == "</span>"

TipOpen(tooltip) == "<span data-tip=\"" \o Join(escape(tooltip)) \o "\">"

ImmOpen(tooltip) == "<span class=\"imm\" data-tip=\"" \o Join(escape(tooltip)) \o "\">"

TargetAnchorOpen(target) ==
    "<a href=\"#addr-" \o Hex4(target) \o "\" data-tip=\"&" \o Hex4(target) \o "\">"

ExtLabelOpen(target) ==
    "<span class=\"ext-label\" data-tip=\"&" \o Hex4(target) \o "\">"

_linkify_operand(operand, item, valid) ==
    IF "target_label" \notin DOMAIN item \/ "target" \notin DOMAIN item
    THEN escape(operand)
    ELSE LET target          == item.target
             escaped_operand == escape(operand)
             escaped_label   == escape(item.target_label)
             at              == find(escaped_operand, escaped_label)
             replacement     ==
                 IF target \in valid
                 THEN <<TargetAnchorOpen(target)>> \o escaped_label \o <<AnchorClose>>
                 ELSE <<ExtLabelOpen(target)>> \o escaped_label \o <<SpanClose>>
         IN  IF at >= 0
             THEN Slice(escaped_operand, 0, at) \o replacement
                  \o Slice(escaped_operand, at + Len(escaped_label),
                           Len(escaped_operand))
             ELSE escape(operand)

_render_code(item, valid) ==
    LET mnemonic == escape(upper(item.mnemonic))
        operand  == Get(item, "operand", <<>>)
        html     == Spaces(4) \o <<OpcodeOpen>> \o mnemonic \o <<SpanClose>>
        linked   == _linkify_operand(operand, item, valid)
        operand_html ==
            IF _is_immediate(operand, item)
            THEN <<ImmOpen(_immediate_tooltip(item.bytes[2]))>> \o linked
                 \o <<SpanClose>>
            ELSE linked
    IN  IF operand # <<>>
        THEN html \o <<" ", OperandOpen>> \o operand_html \o <<SpanClose>>
        ELSE html

\* the for loop of _group_values, from the state it has reached
RECURSIVE group_values_from(_, _, _, _, _, _, _)
group_values_from(parts, line_groups, current_group, current_width, prefix_width, value_width, max_width) ==
    IF parts = <<>>
    THEN IF current_group # <<>> THEN Append(line_groups, current_group)
         ELSE line_groups
    ELSE LET part   == Head(parts)
             needed == (IF current_group # <<>> THEN 2 ELSE 0) + value_width
         IN  IF current_width + needed > max_width /\ current_group # <<>>
             THEN group_values_from(Tail(parts), Append(line_groups, current_group),
                                    <<part>>, prefix_width + value_width,
                                    prefix_width, value_width, max_width)
             ELSE group_values_from(Tail(parts), line_groups,
                                    Append(current_group, part),
                                    current_width + needed,
                                    prefix_width, value_width, max_width)

_group_values(parts, prefix_width, value_width, max_width) ==
    group_values_from(parts, <<>>, <<>>, prefix_width, prefix_width, value_width,
                      max_width)

\* sep.join(pieces), each piece and sep a sequence
RECURSIVE join(_, _)
join(sep, pieces) ==
    IF pieces = <<>> THEN <<>>
    ELSE IF Len(pieces) = 1 THEN pieces[1]
    ELSE pieces[1] \o sep \o join(sep, Tail(pieces))

\* the tail that _render_bytes and _render_words share
render_values(keyword, parts, value_width, max_width) ==
    LET prefix_html   == Spaces(4) \o <<DirectiveOpen>> \o keyword \o <<SpanClose, " ">>
        prefix_width  == 9
        line_groups   == _group_values(parts, prefix_width, value_width, max_width)
        indent        == Spaces(prefix_width)
        joined_groups == [g \in 1..Len(line_groups) |-> join(<<",", " ">>, line_groups[g])]
    IN  prefix_html \o join(<<",", "\n">> \o indent, joined_groups)

_render_bytes(item, max_width) ==
    LET values == Get(item, "values", <<>>)
        parts  == [k \in 1..Len(values) |->
                      <<TipOpen(_immediate_tooltip(values[k]))>>
                      \o <<"&", "a", "m", "p", ";">> \o Hex2Chars(values[k])
                      \o <<SpanClose>>]
    IN  render_values(<<"E", "Q", "U", "B">>, parts, 3, max_width)

_render_words(item, max_width) ==
    LET values == Get(item, "values", <<>>)
        escaped_parts == [k \in 1..Len(values) |->
                             escape(<<"&">> \o Hex4Chars(values[k]))]
    IN  render_values(<<"E", "Q", "U", "W">>, escaped_parts, 5, max_width)

\* _render_string with item.get("string") and no default
_render_string_no_default(item) ==
    Spaces(4) \o <<DirectiveOpen, "E", "Q", "U", "S", SpanClose, " ", StringOpen>>
    \o <<"&", "q", "u", "o", "t", ";">> \o escape(Get(item, "string", <<"N", "o", "n", "e">>))
    \o <<"&", "q", "u", "o", "t", ";">> \o <<SpanClose>>

_render_string(item) ==
    Spaces(4) \o <<DirectiveOpen, "E", "Q", "U", "S", SpanClose, " ", StringOpen>>
    \o <<"&", "q", "u", "o", "t", ";">> \o escape(Get(item, "string", <<>>))
    \o <<"&", "q", "u", "o", "t", ";">> \o <<SpanClose>>

_render_content(item, valid, max_width) ==
    CASE item.type = "code" -> _render_code(item, valid)
      [] item.type = "byte" -> _render_bytes(item, max_width)
      [] item.type = "word" -> _render_words(item, max_width)
      [] item.type = "string" -> _render_string(item)
      [] OTHER -> <<>>

\* the rows of a text: text.split("\n")
RECURSIVE split_lines(_)
split_lines(text) ==
    LET breaks == {i \in 1..Len(text) : text[i] = "\n"}
    IN  IF breaks = {} THEN <<text>>
        ELSE LET i == SetMin(breaks)
             IN  <<SubSeq(text, 1, i - 1)>> \o split_lines(SubSeq(text, i + 1, Len(text)))

_visible_width(markup) ==
    LET rows == split_lines(VisibleText(markup))
    IN  SetMax({Len(rows[k]) : k \in 1..Len(rows)})

(***************************************************************************)
(* disassembly.py: the listing, from items to sections of lines.           *)
(***************************************************************************)
\* None, in a field of a line that otherwise holds a string
None == "None"

\* the arrows of the fall-through marker and of the come-from popup
DownArrow == "U+2193"

LeftArrow == "U+2190"

FallThroughOpen == "<span class=\"fall-through\">"

LabelOpen == "<span class=\"label\">"

CommentOpen == "<span class=\"comment\">"

RefBadgeOpen == "<span class=\"ref-badge\">"

RefPopupOpen == "<span class=\"ref-popup\">"

RefAnchorOpen(ref_addr) == "<a href=\"#addr-" \o Hex4(ref_addr) \o "\">"

\* str.lstrip
RECURSIVE lstrip(_)
lstrip(text) ==
    IF text # <<>> /\ Head(text) \in {" ", "\n"} THEN lstrip(Tail(text)) ELSE text

\* str.rstrip and str.strip
RECURSIVE rstrip(_)
rstrip(text) ==
    IF text # <<>> /\ text[Len(text)] \in {" ", "\n"}
    THEN rstrip(SubSeq(text, 1, Len(text) - 1))
    ELSE text

strip(text) == rstrip(lstrip(text))

\* sorted(references) of a list of integers, duplicates kept
RECURSIVE sorted_list(_)
sorted_list(xs) ==
    IF xs = <<>> THEN <<>>
    ELSE LET least == SetMin({xs[k] : k \in 1..Len(xs)})
             at    == SetMin({k \in 1..Len(xs) : xs[k] = least})
         IN  <<least>> \o sorted_list(SubSeq(xs, 1, at - 1) \o SubSeq(xs, at + 1, Len(xs)))

\* the dict built from a list of records by their addr, the last one winning
by_addr(records) ==
    [a \in {records[k].addr : k \in 1..Len(records)} |->
        records[SetMax({k \in 1..Len(records) : records[k].addr = a})]]

_empty_line == [id |-> None, addr |-> None, html |-> <<>>]

fall_through_line ==
    [id |-> None, addr |-> None,
     html |-> <<FallThroughOpen>> \o <<"f", "a", "l", "l", " ", "t", "h", "r", "o", "u", "g", "h", " ">> \o <<DownArrow, SpanClose>>]

_is_reference_comment(text) ==
    StartsWith(text, <<"&">>) /\ find(text, <<"r", "e", "f", "e", "r", "e", "n", "c", "e", "d">>) >= 0

_is_banner_line(text) ==
    LET stripped == strip(text)
    IN  Len(stripped) > 3 /\ \A k \in 1..Len(stripped) : stripped[k] = "*"

\* _is_banner_content taking no comment for banner content
_is_banner_content_never(text, sub) == FALSE

_is_banner_content(text, sub) ==
    LET title == Get(sub, "title", <<>>)
    IN  title # <<>> /\ StartsWith(text, title)

\* comment_line_html escaping the joined pieces of a wrapped comment again
comment_line_html_escape_twice(line_text, max_width, valid, sorted_addrs) ==
    LET wrapped == _wrap_text(line_text, max_width - 2, 2, max_width)
        parts   == [k \in 1..Len(wrapped) |->
                       IF k = 1 THEN _linkify_comment_text(wrapped[1], valid, sorted_addrs)
                       ELSE <<"\n", ";", " ">>
                            \o _linkify_comment_text(wrapped[k], valid, sorted_addrs)]
    IN  IF strip(line_text) = <<>> THEN <<>>
        ELSE IF StartsWith(line_text, <<" ", " ">>) \/ 2 + Len(line_text) <= max_width
        THEN <<CommentOpen, ";", " ">>
             \o _linkify_comment_text(line_text, valid, sorted_addrs) \o <<SpanClose>>
        ELSE <<CommentOpen, ";", " ">> \o escape(StripTags(Flatten(parts)))
             \o <<SpanClose>>

\* the markup of one line of a comment block
comment_line_html(line_text, max_width, valid, sorted_addrs) ==
    LET comment_prefix_width == 2
        total_width == comment_prefix_width + Len(line_text)
        budget  == max_width - comment_prefix_width
        wrapped == _wrap_text(line_text, budget, comment_prefix_width, max_width)
        parts   == [k \in 1..Len(wrapped) |->
                       IF k = 1 THEN _linkify_comment_text(wrapped[1], valid, sorted_addrs)
                       ELSE <<"\n", ";", " ">>
                            \o _linkify_comment_text(wrapped[k], valid, sorted_addrs)]
    IN  IF strip(line_text) = <<>> THEN <<>>
        ELSE IF StartsWith(line_text, <<" ", " ">>) \/ total_width <= max_width
        THEN <<CommentOpen, ";", " ">>
             \o _linkify_comment_text(line_text, valid, sorted_addrs) \o <<SpanClose>>
        ELSE <<CommentOpen, ";", " ">> \o Flatten(parts) \o <<SpanClose>>

_append_comment_lines(lines, comment_text, max_width, valid, sorted_addrs) ==
    LET rows == split_lines(comment_text)
    IN  lines \o [k \in 1..Len(rows) |->
                     [id |-> None, addr |-> None,
                      html |-> comment_line_html(rows[k], max_width, valid, sorted_addrs)]]

\* _append_comment_lines for each comment of a list, in order
RECURSIVE append_comments(_, _, _, _, _)
append_comments(lines, comments, max_width, valid, sorted_addrs) ==
    IF comments = <<>> THEN lines
    ELSE append_comments(
             _append_comment_lines(lines, Head(comments), max_width, valid, sorted_addrs),
             Tail(comments), max_width, valid, sorted_addrs)

\* _render_ref_popup listing the references in input order
_render_ref_popup_unsorted(references, item_by_addr) ==
    LET count       == Len(references)
        mnemonic(ref_addr) ==
            IF ref_addr \in DOMAIN item_by_addr
               /\ item_by_addr[ref_addr].type = "code"
            THEN upper(item_by_addr[ref_addr].mnemonic)
            ELSE <<"r", "e", "f">>
        links_html == [k \in 1..count |->
                     <<RefAnchorOpen(references[k]), LeftArrow, " ">>
                     \o Hex4Chars(references[k]) \o <<" ">>
                     \o escape(mnemonic(references[k])) \o <<AnchorClose>>]
    IN  <<RefBadgeOpen, LeftArrow>> \o str(count) \o <<SpanClose, RefPopupOpen>>
        \o Flatten(links_html) \o <<SpanClose>>

_render_ref_popup(references, item_by_addr) ==
    LET refs_sorted == sorted_list(references)
        count       == Len(refs_sorted)
        mnemonic(ref_addr) ==
            IF ref_addr \in DOMAIN item_by_addr
               /\ item_by_addr[ref_addr].type = "code"
            THEN upper(item_by_addr[ref_addr].mnemonic)
            ELSE <<"r", "e", "f">>
        links_html == [k \in 1..count |->
                     <<RefAnchorOpen(refs_sorted[k]), LeftArrow, " ">>
                     \o Hex4Chars(refs_sorted[k]) \o <<" ">>
                     \o escape(mnemonic(refs_sorted[k])) \o <<AnchorClose>>]
    IN  <<RefBadgeOpen, LeftArrow>> \o str(count) \o <<SpanClose, RefPopupOpen>>
        \o Flatten(links_html) \o <<SpanClose>>

\* the blocks of _render_plaintext: runs of lines that are not blank
RECURSIVE plaintext_blocks(_, _, _)
plaintext_blocks(rows, current, blocks) ==
    IF rows = <<>>
    THEN IF current # <<>> THEN Append(blocks, current) ELSE blocks
    ELSE IF strip(Head(rows)) = <<>>
    THEN plaintext_blocks(Tail(rows), <<>>,
                          IF current # <<>> THEN Append(blocks, current) ELSE blocks)
    ELSE plaintext_blocks(Tail(rows), Append(current, Head(rows)), blocks)

_render_plaintext(text, valid, sorted_addrs) ==
    LET blocks == plaintext_blocks(split_lines(text), <<>>, <<>>)
        block_html(block) ==
            IF \A k \in 1..Len(block) : StartsWith(block[k], <<" ", " ">>)
            THEN <<"<pre class=\"sub-detail\">">>
                 \o _linkify_comment_text(join(<<"\n">>, block), valid, sorted_addrs)
                 \o <<"</pre>">>
            ELSE <<"<p>">>
                 \o _linkify_comment_text(
                        join(<<" ">>, [k \in 1..Len(block) |-> strip(block[k])]),
                        valid, sorted_addrs)
                 \o <<"</p>">>
    IN  join(<<"\n">>, [b \in 1..Len(blocks) |-> block_html(blocks[b])])

\* regs is the dict as its list of (reg, desc) pairs, in insertion order
_render_register_rows(heading, regs, valid, sorted_addrs) ==
    LET th(i) == IF i = 1
                 THEN <<"<th rowspan=\"" \o ToString(Len(regs)) \o "\">">>
                      \o escape(heading) \o <<"</th>">>
                 ELSE <<>>
        rows == [i \in 1..Len(regs) |->
                    <<"<tr>">> \o th(i) \o <<"<td>">> \o escape(upper(regs[i][1]))
                    \o <<"</td>", "<td>">>
                    \o _linkify_comment_text(regs[i][2], valid, sorted_addrs)
                    \o <<"</td>", "</tr>">>]
    IN  join(<<"\n">>, rows)

_render_subroutine_header(sub, valid, sorted_addrs) ==
    LET title == Get(sub, "title", Get(sub, "name", <<>>))
        desc  == Get(sub, "description", <<>>)
        entry == Get(sub, "on_entry", <<>>)
        exit_ == Get(sub, "on_exit", <<>>)
        parts ==
            << <<"<div class=\"sub-header\">">>,
               <<"<h3>">> \o escape(title) \o <<"</h3>">> >>
            \o (IF desc # <<>>
                THEN << <<"<div class=\"sub-desc\">">>
                        \o _render_plaintext(desc, valid, sorted_addrs) \o <<"</div>">> >>
                ELSE <<>>)
            \o (IF entry # <<>> \/ exit_ # <<>>
                THEN << <<"<div class=\"sub-registers\">", "<table>">> >>
                     \o (IF entry # <<>>
                         THEN <<_render_register_rows(<<"O", "n", " ", "E", "n", "t", "r", "y">>, entry, valid, sorted_addrs)>>
                         ELSE <<>>)
                     \o (IF exit_ # <<>>
                         THEN <<_render_register_rows(<<"O", "n", " ", "E", "x", "i", "t">>, exit_, valid, sorted_addrs)>>
                         ELSE <<>>)
                     \o << <<"</table>", "</div>">> >>
                ELSE <<>>)
            \o << <<"</div>">> >>
    IN  join(<<"\n">>, parts)

\* sub_lookup.get(addr) is a subroutine that has a title
HasTitle(sub_lookup, addr) ==
    addr \in DOMAIN sub_lookup /\ Get(sub_lookup[addr], "title", <<>>) # <<>>

\* label_lines with the address shown on every label line
label_lines_all_addressed(item, item_by_addr, id_used) ==
    LET addr       == item.addr
        addr_id    == "addr-" \o Hex4(addr)
        binary_addr_raw == Get(item, "binary_addr", NoneAddr)
        references == Get(item, "references", <<>>)
        labels     == Get(item, "labels", <<>>)
        ref_html   == IF references # <<>>
                      THEN _render_ref_popup(references, item_by_addr) ELSE <<>>
    IN  [k \in 1..Len(labels) |->
            [id |-> IF ~id_used /\ k = 1 THEN addr_id ELSE None,
             addr |-> Hex4(addr),
             addr_id |-> addr_id,
             binary_addr |-> IF k = 1 /\ binary_addr_raw # NoneAddr
                             THEN Hex4(binary_addr_raw) ELSE None,
             binary_addr_id |-> IF binary_addr_raw # NoneAddr
                                THEN "addr-" \o Hex4(binary_addr_raw) ELSE None,
             html |-> <<LabelOpen, ".">> \o escape(labels[k]) \o ref_html
                      \o <<SpanClose>>]]

\* the label lines of _process_item; the first takes the id and the address
label_lines(item, item_by_addr, id_used) ==
    LET addr       == item.addr
        addr_id    == "addr-" \o Hex4(addr)
        binary_addr_raw == Get(item, "binary_addr", NoneAddr)
        references == Get(item, "references", <<>>)
        labels     == Get(item, "labels", <<>>)
        ref_html   == IF references # <<>>
                      THEN _render_ref_popup(references, item_by_addr) ELSE <<>>
    IN  [k \in 1..Len(labels) |->
            [id |-> IF ~id_used /\ k = 1 THEN addr_id ELSE None,
             addr |-> IF k = 1 THEN Hex4(addr) ELSE None,
             addr_id |-> addr_id,
             binary_addr |-> IF k = 1 /\ binary_addr_raw # NoneAddr
                             THEN Hex4(binary_addr_raw) ELSE None,
             binary_addr_id |-> IF binary_addr_raw # NoneAddr
                                THEN "addr-" \o Hex4(binary_addr_raw) ELSE None,
             html |-> <<LabelOpen, ".">> \o escape(labels[k]) \o ref_html
                      \o <<SpanClose>>]]

_process_item(item, sub_lookup, item_by_addr, valid, sorted_addrs, max_width) ==
    LET addr       == item.addr
        addr_id    == "addr-" \o Hex4(addr)
        binary_addr_raw == Get(item, "binary_addr", NoneAddr)
        before     == Get(item, "comments_before", <<>>)
        comments   == SelectSeq(before,
                          LAMBDA c : ~_is_reference_comment(c) /\ ~_is_banner_line(c))
        titled     == HasTitle(sub_lookup, addr)
        non_banner == SelectSeq(comments,
                          LAMBDA c : ~_is_banner_content(c, sub_lookup[addr]))
        head_lines ==
            IF titled
            THEN append_comments(
                     <<_empty_line,
                       [id |-> addr_id, addr |-> None,
                        html |-> _render_subroutine_header(sub_lookup[addr], valid,
                                                           sorted_addrs),
                        banner |-> TRUE]>>,
                     non_banner, max_width, valid, sorted_addrs)
            ELSE append_comments(IF comments # <<>> THEN <<_empty_line>> ELSE <<>>,
                                 comments, max_width, valid, sorted_addrs)
        labelled   == label_lines(item, item_by_addr, titled)
        id_used    == titled \/ labelled # <<>>
        addr_shown == labelled # <<>>
        content    ==
            [id |-> IF ~id_used THEN addr_id ELSE None,
             addr |-> IF ~addr_shown THEN Hex4(addr) ELSE None,
             addr_id |-> addr_id,
             binary_addr |-> IF ~addr_shown /\ binary_addr_raw # NoneAddr
                             THEN Hex4(binary_addr_raw) ELSE None,
             binary_addr_id |-> IF binary_addr_raw # NoneAddr
                                THEN "addr-" \o Hex4(binary_addr_raw) ELSE None,
             html |-> _render_content(item, valid, max_width),
             _inline_comment |-> Get(item, "comment_inline", <<>>),
             _max_width |-> max_width]
    IN  append_comments(head_lines \o labelled \o <<content>>,
                        Get(item, "comments_after", <<>>),
                        max_width, valid, sorted_addrs)

\* the loop of _find_relocated_sections, from the state it has reached
RECURSIVE find_relocated_from(_, _, _, _, _)
find_relocated_from(items, sub_lookup, relocated, current_start, has_binary) ==
    IF items = <<>>
    THEN IF has_binary /\ current_start # NoneAddr
         THEN relocated \cup {current_start} ELSE relocated
    ELSE LET item   == Head(items)
             titled == HasTitle(sub_lookup, item.addr)
             closed == IF titled /\ has_binary /\ current_start # NoneAddr
                       THEN relocated \cup {current_start} ELSE relocated
         IN  find_relocated_from(
                 Tail(items), sub_lookup, closed,
                 IF titled THEN item.addr ELSE current_start,
                 "binary_addr" \in DOMAIN item \/ (~titled /\ has_binary))

\* _find_relocated_sections looking at the first item of a section only
_find_relocated_first_item(items, sub_lookup) ==
    {items[k].addr : k \in {j \in 1..Len(items) :
                               /\ HasTitle(sub_lookup, items[j].addr)
                               /\ "binary_addr" \in DOMAIN items[j]}}

\* _find_relocated_sections marking every titled start once any item of the
\* listing carries binary_addr
_find_relocated_any_item(items, sub_lookup) ==
    {items[k].addr : k \in {j \in 1..Len(items) :
                               /\ HasTitle(sub_lookup, items[j].addr)
                               /\ \E m \in 1..Len(items) : "binary_addr" \in DOMAIN items[m]}}

_find_relocated_sections(items, sub_lookup) ==
    find_relocated_from(items, sub_lookup, {}, NoneAddr, FALSE)

\* the loop of process_disassembly without the marker after the last item
RECURSIVE process_items_no_final_marker(_, _, _, _, _, _, _, _, _)
process_items_no_final_marker(items, lines, current_sub, in_relocated, sub_lookup, item_by_addr, valid, sorted_addrs, relocated_sections) ==
    IF items = <<>>
    THEN lines
    ELSE LET item     == Head(items)
             has_sub  == item.addr \in DOMAIN sub_lookup
             marked   == IF has_sub /\ Get(current_sub, "fall_through", FALSE)
                         THEN Append(lines, fall_through_line) ELSE lines
             relocated_now ==
                 IF HasTitle(sub_lookup, item.addr)
                 THEN item.addr \in relocated_sections ELSE in_relocated
             max_width == IF relocated_now THEN RELOCATED_MAX_WIDTH
                          ELSE CONTENT_MAX_WIDTH
         IN  process_items_no_final_marker(
                 Tail(items),
                 marked \o _process_item(item, sub_lookup, item_by_addr, valid,
                                         sorted_addrs, max_width),
                 IF has_sub THEN sub_lookup[item.addr] ELSE current_sub,
                 relocated_now, sub_lookup, item_by_addr, valid, sorted_addrs,
                 relocated_sections)

\* the for loop of process_disassembly, from the state it has reached;
\* current_sub is <<>> for None
RECURSIVE process_items_from(_, _, _, _, _, _, _, _, _)
process_items_from(items, lines, current_sub, in_relocated, sub_lookup, item_by_addr, valid, sorted_addrs, relocated_sections) ==
    IF items = <<>>
    THEN IF Get(current_sub, "fall_through", FALSE)
         THEN Append(lines, fall_through_line) ELSE lines
    ELSE LET item     == Head(items)
             has_sub  == item.addr \in DOMAIN sub_lookup
             marked   == IF has_sub /\ Get(current_sub, "fall_through", FALSE)
                         THEN Append(lines, fall_through_line) ELSE lines
             relocated_now ==
                 IF HasTitle(sub_lookup, item.addr)
                 THEN item.addr \in relocated_sections ELSE in_relocated
             max_width == IF relocated_now THEN RELOCATED_MAX_WIDTH
                          ELSE CONTENT_MAX_WIDTH
         IN  process_items_from(
                 Tail(items),
                 marked \o _process_item(item, sub_lookup, item_by_addr, valid,
                                         sorted_addrs, max_width),
                 IF has_sub THEN sub_lookup[item.addr] ELSE current_sub,
                 relocated_now, sub_lookup, item_by_addr, valid, sorted_addrs,
                 relocated_sections)

\* the lines of process_disassembly before _align_inline_comments
listing_lines(data) ==
    LET sub_lookup   == by_addr(Get(data, "subroutines", <<>>))
        item_by_addr == by_addr(data.items)
        valid        == DOMAIN item_by_addr
    IN  process_items_from(data.items, <<>>, <<>>, FALSE, sub_lookup, item_by_addr,
                           valid, sorted(valid),
                           _find_relocated_sections(data.items, sub_lookup))

\* _split_into_blocks starting a block at banners only
RECURSIVE split_blocks_at_banners(_, _, _, _)
split_blocks_at_banners(lines, i, current, blocks) ==
    IF i > Len(lines)
    THEN IF current # <<>> THEN Append(blocks, current) ELSE blocks
    ELSE IF Get(lines[i], "banner", FALSE)
         THEN split_blocks_at_banners(lines, i + 1, <<i>>,
                                      IF current # <<>> THEN Append(blocks, current)
                                      ELSE blocks)
         ELSE split_blocks_at_banners(lines, i + 1, Append(current, i), blocks)

\* the blocks as the lists of the indices (from 1) of their lines
RECURSIVE split_blocks_from(_, _, _, _)
split_blocks_from(lines, i, current, blocks) ==
    IF i > Len(lines)
    THEN IF current # <<>> THEN Append(blocks, current) ELSE blocks
    ELSE LET is_label  == \E k \in 1..Len(lines[i].html) : lines[i].html[k] = LabelOpen
             is_banner == Get(lines[i], "banner", FALSE)
         IN  IF is_label \/ is_banner
             THEN split_blocks_from(lines, i + 1, <<i>>,
                                    IF current # <<>> THEN Append(blocks, current)
                                    ELSE blocks)
             ELSE split_blocks_from(lines, i + 1, Append(current, i), blocks)

_split_into_blocks(lines) == split_blocks_from(lines, 1, <<>>, <<>>)

\* the markup of a commented line once its comment is merged in; max_width is
\* the widest commented content of the block
merge_inline_comment(line, max_width, valid, sorted_addrs) ==
    LET comment     == line._inline_comment
        line_max    == Get(line, "_max_width", CONTENT_MAX_WIDTH)
        code_width  == _visible_width(line.html)
        padding     == Spaces(max_width - code_width + 2)
        comment_col == max_width + 2 + 2
        total_width == comment_col + Len(comment)
        first_budget == line_max - comment_col
        wrapped     == _wrap_text(comment, first_budget, comment_col, line_max)
        indent_str  == Spaces(comment_col)
        parts       == [k \in 1..Len(wrapped) |->
                           IF k = 1
                           THEN _linkify_comment_text(wrapped[1], valid, sorted_addrs)
                           ELSE <<"\n">> \o indent_str
                                \o _linkify_comment_text(wrapped[k], valid, sorted_addrs)]
    IN  IF total_width <= line_max
        THEN line.html \o padding \o <<CommentOpen, ";", " ">>
             \o _linkify_comment_text(comment, valid, sorted_addrs) \o <<SpanClose>>
        ELSE line.html \o padding \o <<CommentOpen, ";", " ">> \o Flatten(parts)
             \o <<SpanClose>>

\* the clean-up popping "_inline_comment" only
pop_inline_comment_only(line) ==
    [key \in DOMAIN line \ {"_inline_comment"} |-> line[key]]

\* line.pop("_inline_comment", None) and line.pop("_max_width", None)
pop_internal(line) ==
    [key \in DOMAIN line \ {"_inline_comment", "_max_width"} |-> line[key]]

IsCommented(line) == Get(line, "_inline_comment", <<>>) # <<>>

_align_inline_comments(lines, valid, sorted_addrs) ==
    LET blocks == _split_into_blocks(lines)
        block_of(i) == CHOOSE b \in 1..Len(blocks) :
                           \E k \in 1..Len(blocks[b]) : blocks[b][k] = i
        commented(b) == {blocks[b][k] : k \in 1..Len(blocks[b])}
                        \cap {i \in 1..Len(lines) : IsCommented(lines[i])}
        max_width(b) == SetMax({_visible_width(lines[i].html) : i \in commented(b)})
    IN  [i \in 1..Len(lines) |->
            pop_internal(
                IF IsCommented(lines[i])
                THEN [lines[i] EXCEPT !.html =
                         merge_inline_comment(lines[i], max_width(block_of(i)), valid,
                                              sorted_addrs)]
                ELSE lines[i])]

\* _make_section looking for a ROM address on the first line only
_make_section_first_line(lines) ==
    [lines |-> lines,
     has_binary_addr |-> Get(lines[1], "binary_addr", None) # None]

_make_section(lines) ==
    [lines |-> lines,
     has_binary_addr |-> \E k \in 1..Len(lines) : Get(lines[k], "binary_addr", None) # None]

\* _split_into_sections starting each later section after its banner line
RECURSIVE split_sections_without_banner(_, _, _)
split_sections_without_banner(lines, current_lines, sections) ==
    IF lines = <<>>
    THEN IF current_lines # <<>> THEN Append(sections, _make_section(current_lines))
         ELSE sections
    ELSE IF Get(Head(lines), "banner", FALSE) /\ current_lines # <<>>
    THEN split_sections_without_banner(Tail(lines), <<>>,
                                       Append(sections, _make_section(current_lines)))
    ELSE split_sections_without_banner(Tail(lines), Append(current_lines, Head(lines)),
                                       sections)

RECURSIVE split_sections_from(_, _, _)
split_sections_from(lines, current_lines, sections) ==
    IF lines = <<>>
    THEN IF current_lines # <<>> THEN Append(sections, _make_section(current_lines))
         ELSE sections
    ELSE IF Get(Head(lines), "banner", FALSE) /\ current_lines # <<>>
    THEN split_sections_from(Tail(lines), <<Head(lines)>>,
                             Append(sections, _make_section(current_lines)))
    ELSE split_sections_from(Tail(lines), Append(current_lines, Head(lines)), sections)

_split_into_sections(lines) == split_sections_from(lines, <<>>, <<>>)

process_disassembly(data) ==
    LET valid == {data.items[k].addr : k \in 1..Len(data.items)}
    IN  _split_into_sections(
            _align_inline_comments(listing_lines(data), valid, sorted(valid)))

(***************************************************************************)
(* glossary.py: the glossary linker.                                       *)
(***************************************************************************)
\* str.lower
LowerChar(c) ==
    IF c \in UpperLetters
    THEN LowerSeq[CHOOSE k \in 1..26 : UpperSeq[k] = c]
    ELSE c

lower(text) == [k \in 1..Len(text) |-> LowerChar(text[k])]

\* the while loop of _find_text_occurrences; i, tag_start and the spans are
\* 0-based offsets as in the source
RECURSIVE find_from(_, _, _, _, _, _)
find_from(html_text, pattern, i, inside_tag, tag_start, anchor_depth) ==
    IF ~(i < Len(html_text)) THEN <<>>
    ELSE LET ch      == html_text[i + 1]
             pat_len == Len(pattern)
         IN  IF ch = "<"
             THEN find_from(html_text, pattern, i + 1, TRUE, i, anchor_depth)
             ELSE IF ch = ">" /\ inside_tag
             THEN LET tag_content == Slice(html_text, tag_start + 1, i)
                      tag_lower   == lstrip(lower(tag_content))
                      depth       == IF StartsWith(tag_lower, <<"a", " ">>)
                                        \/ tag_lower = <<"a">>
                                     THEN anchor_depth + 1
                                     ELSE IF StartsWith(tag_lower, <<"/", "a">>)
                                     THEN Max(0, anchor_depth - 1)
                                     ELSE anchor_depth
                  IN  find_from(html_text, pattern, i + 1, FALSE, tag_start, depth)
             ELSE IF ~inside_tag /\ anchor_depth = 0
                     /\ Slice(html_text, i, Min(i + pat_len, Len(html_text))) = pattern
             THEN <<<<i, i + pat_len>>>>
                  \o find_from(html_text, pattern, i + pat_len, inside_tag,
                               tag_start, anchor_depth)
             ELSE find_from(html_text, pattern, i + 1, inside_tag, tag_start,
                            anchor_depth)

_find_text_occurrences(html_text, pattern) ==
    find_from(html_text, pattern, 0, FALSE, 0, 0)

\* the glossary lookup of build_glossary_lookup: one entry with an expansion,
\* one without (expansion None, here the empty text)
GlossaryTerms == {"BRKV", "NMI"}

GlossaryLookup ==
    [t \in GlossaryTerms |->
        IF t = "BRKV"
        THEN [slug |-> "brkv", expansion |-> <<"B", "V">>, brief |-> <<"M", "O", "S">>]
        ELSE [slug |-> "nmi", expansion |-> <<>>, brief |-> <<"I", "R", "Q", "&">>]]

_build_tooltip(entry) ==
    IF entry.expansion # <<>>
    THEN entry.expansion \o <<":", " ">> \o entry.brief
    ELSE entry.brief

GlossaryAnchorOpen(entry) ==
    "<a href=\"glossary.html#term-" \o entry.slug \o "\" class=\"glossary-ref\" data-tip=\""
    \o Join(escape(_build_tooltip(entry))) \o "\">"

\* idx = occurrence if occurrence >= 0 else len(matches) + occurrence, with
\* the negative occurrences counted one too far from the end
select_index_off_by_one(occurrence, n) ==
    IF occurrence >= 0 THEN occurrence ELSE n + occurrence + 1

\* idx = occurrence if occurrence >= 0 else len(matches) + occurrence
select_index(occurrence, n) ==
    IF occurrence >= 0 THEN occurrence ELSE n + occurrence

\* the body of the loop of apply_glossary_links for one link spec: the
\* replacement it appends, or nothing when it continues
glossary_replacement(html_text, link_spec, glossary_lookup) ==
    IF link_spec.term \notin DOMAIN glossary_lookup THEN <<>>
    ELSE LET entry   == glossary_lookup[link_spec.term]
             matches == _find_text_occurrences(html_text, link_spec.pattern)
             idx     == select_index(link_spec.occurrence, Len(matches))
         IN  IF matches = <<>> THEN <<>>
             ELSE IF idx < 0 \/ idx >= Len(matches) THEN <<>>
             ELSE LET start == matches[idx + 1][1]
                      end   == matches[idx + 1][2]
                  IN  <<[start |-> start, end |-> end,
                         replacement |-> <<GlossaryAnchorOpen(entry)>>
                                         \o escape(Slice(html_text, start, end))
                                         \o <<AnchorClose>>]>>

\* replacements.sort(key=lambda r: r[0], reverse=True): a stable sort, so
\* replacements with equal starts keep their order
RECURSIVE sort_by_start_reverse(_)
sort_by_start_reverse(rs) ==
    IF rs = <<>> THEN <<>>
    ELSE LET done == sort_by_start_reverse(SubSeq(rs, 1, Len(rs) - 1))
             r    == rs[Len(rs)]
             keep == {k \in 0..Len(done) : \A j \in 1..k : done[j].start >= r.start}
             at   == SetMax(keep)
         IN  SubSeq(done, 1, at) \o <<r>> \o SubSeq(done, at + 1, Len(done))

\* for start, end, replacement in replacements: text = text[:start] + ...
RECURSIVE apply_replacements(_, _)
apply_replacements(text, rs) ==
    IF rs = <<>> THEN text
    ELSE LET r == Head(rs)
         IN  apply_replacements(
                 Slice(text, 0, Min(r.start, Len(text))) \o r.replacement
                 \o Slice(text, Min(r.end, Len(text)), Len(text)),
                 Tail(rs))

\* the loop of apply_glossary_links over glossary_links
RECURSIVE glossary_replacements(_, _, _)
glossary_replacements(html_text, glossary_links, glossary_lookup) ==
    IF glossary_links = <<>> THEN <<>>
    ELSE glossary_replacement(html_text, Head(glossary_links), glossary_lookup)
         \o glossary_replacements(html_text, Tail(glossary_links), glossary_lookup)

\* the same loop leaving at the first spec it cannot apply ("break" where the
\* source has "continue")
RECURSIVE glossary_replacements_break(_, _, _)
glossary_replacements_break(html_text, glossary_links, glossary_lookup) ==
    IF glossary_links = <<>> THEN <<>>
    ELSE LET r == glossary_replacement(html_text, Head(glossary_links), glossary_lookup)
         IN  IF r = <<>> THEN <<>>
             ELSE r \o glossary_replacements_break(html_text, Tail(glossary_links),
                                                   glossary_lookup)

apply_glossary_links_break(html_text, glossary_links, glossary_lookup) ==
    LET replacements == glossary_replacements_break(html_text, glossary_links,
                                                    glossary_lookup)
    IN  [replacements |-> replacements,
         text |-> apply_replacements(html_text, sort_by_start_reverse(replacements))]

\* apply_glossary_links: the replacements list as the loop leaves it, and the
\* text returned
apply_glossary_links(html_text, glossary_links, glossary_lookup) ==
    LET replacements == glossary_replacements(html_text, glossary_links,
                                              glossary_lookup)
    IN  [replacements |-> replacements,
         text |-> apply_replacements(html_text, sort_by_start_reverse(replacements))]

(***************************************************************************)
(* glossary.py: the glossary parser.                                       *)
(***************************************************************************)
\* _slugify: lower case, a hyphen for every space, then only [a-z0-9-] kept
_slugify(text) ==
    LET slug == [k \in 1..Len(text) |->
                    IF text[k] = " " THEN "-" ELSE LowerChar(text[k])]
        Kept(c) == c = "-" \/ c \in Digits \/ \E k \in 1..26 : LowerSeq[k] = c
    IN  SelectSeq(slug, Kept)

\* the tail of _TERM_RE after the closing asterisks: (?:\s*\((.+?)\))?\s*$
\* ends of the lazy group 2, as indexes of its closing parenthesis in rest
ExpansionEnds(rest) ==
    {j \in 3..Len(rest) :
        /\ rest[1] = "("
        /\ rest[j] = ")"
        /\ strip(SubSeq(rest, j + 1, Len(rest))) = <<>>}

TermTailMatches(tail) ==
    LET rest == lstrip(tail)
    IN  rest = <<>> \/ ExpansionEnds(rest) # {}

\* ends of the lazy group 1 of _TERM_RE, as indexes of its last character
TermEnds(line) ==
    {i \in 3..(Len(line) - 2) :
        /\ SubSeq(line, 1, 2) = <<"*", "*">>
        /\ SubSeq(line, i + 1, i + 2) = <<"*", "*">>
        /\ TermTailMatches(SubSeq(line, i + 3, Len(line)))}

\* _TERM_RE.match(line): whether it matched, group 1 and group 2
_TERM_RE_match(line) ==
    IF TermEnds(line) = {} THEN [matched |-> FALSE]
    ELSE LET i    == SetMin(TermEnds(line))
             rest == lstrip(SubSeq(line, i + 3, Len(line)))
         IN  [matched   |-> TRUE,
              term      |-> SubSeq(line, 3, i),
              expansion |-> IF rest = <<>> THEN None
                            ELSE SubSeq(rest, 2, SetMin(ExpansionEnds(rest)) - 1)]

\* the two while loops of _finish_term
RECURSIVE drop_leading_blank(_)
drop_leading_blank(ext_lines) ==
    IF ext_lines # <<>> /\ strip(Head(ext_lines)) = <<>>
    THEN drop_leading_blank(Tail(ext_lines))
    ELSE ext_lines

RECURSIVE drop_trailing_blank(_)
drop_trailing_blank(ext_lines) ==
    IF ext_lines # <<>> /\ strip(ext_lines[Len(ext_lines)]) = <<>>
    THEN drop_trailing_blank(SubSeq(ext_lines, 1, Len(ext_lines) - 1))
    ELSE ext_lines

\* the parser between two lines: categories holds the finished categories,
\* the last of them being current_category; has_term is
\* current_term is not None
NoTerm == [term |-> <<>>, slug |-> <<>>, expansion |-> None, brief_lines |-> <<>>,
           extended_lines |-> <<>>, in_extended |-> FALSE]

ParserStart ==
    [preamble_lines |-> <<>>, categories |-> <<>>, has_term |-> FALSE,
     current_term |-> NoTerm]

\* _finish_term(current_term, current_category): the categories afterwards
_finish_term(st) ==
    IF ~st.has_term \/ st.categories = <<>> THEN st.categories
    ELSE LET term      == st.current_term
             ext_lines == drop_trailing_blank(drop_leading_blank(term.extended_lines))
             entry     == [term      |-> term.term,
                           slug      |-> term.slug,
                           expansion |-> term.expansion,
                           brief     |-> join(<<" ">>, term.brief_lines),
                           extended  |-> join(<<"\n">>, ext_lines)]
             n         == Len(st.categories)
         IN  [st.categories EXCEPT ![n].terms = Append(@, entry)]

\* a line within a term entry, brief lines tested before in_extended
term_line(term, line) ==
    IF StartsWith(line, <<":", " ">>)
    THEN [term EXCEPT !.brief_lines = Append(@, SubSeq(line, 3, Len(line)))]
    ELSE IF strip(line) = <<>>
    THEN LET in_extended == term.in_extended \/ term.brief_lines # <<>>
         IN  [term EXCEPT !.in_extended = in_extended,
                          !.extended_lines = IF in_extended THEN Append(@, <<>>) ELSE @]
    ELSE IF term.in_extended
    THEN [term EXCEPT !.extended_lines = Append(@, line)]
    ELSE IF term.brief_lines # <<>>
    THEN [term EXCEPT !.brief_lines = Append(@, strip(line))]
    ELSE term

IsH1(line) == StartsWith(line, <<"#", " ">>) /\ ~StartsWith(line, <<"#", "#", " ">>)

IsCategoryHeading(line) == StartsWith(line, <<"#", "#", " ">>)

\* one pass of the for loop of parse_glossary
parse_line(st, line) ==
    IF IsH1(line) THEN st
    ELSE IF IsCategoryHeading(line)
    THEN LET name == strip(SubSeq(line, 4, Len(line)))
         IN  [st EXCEPT !.categories = Append(_finish_term(st),
                                              [name |-> name, slug |-> _slugify(name),
                                               terms |-> <<>>]),
                        !.has_term = FALSE,
                        !.current_term = NoTerm]
    ELSE IF st.categories = <<>>
    THEN [st EXCEPT !.preamble_lines = Append(@, line)]
    ELSE IF _TERM_RE_match(line).matched
    THEN LET m == _TERM_RE_match(line)
         IN  [st EXCEPT !.categories = _finish_term(st),
                        !.has_term = TRUE,
                        !.current_term = [term |-> m.term, slug |-> _slugify(m.term),
                                          expansion |-> m.expansion,
                                          brief_lines |-> <<>>, extended_lines |-> <<>>,
                                          in_extended |-> FALSE]]
    ELSE IF st.has_term
    THEN [st EXCEPT !.current_term = term_line(@, line)]
    ELSE st

RECURSIVE parse_lines(_, _)
parse_lines(st, lines) ==
    IF lines = <<>> THEN st ELSE parse_lines(parse_line(st, Head(lines)), Tail(lines))

parse_glossary(md_text) ==
    LET st == parse_lines(ParserStart, split_lines(md_text))
    IN  [preamble   |-> strip(join(<<"\n">>, st.preamble_lines)),
         categories |-> _finish_term(st)]

(***************************************************************************)
(* build.py: address links in documents.                                   *)
(***************************************************************************)
\* bisect.bisect_left(a, x)
RECURSIVE bisect_left_from(_, _, _, _)
bisect_left_from(a, x, lo, hi) ==
    IF lo < hi
    THEN LET mid == (lo + hi) \div 2
         IN  IF a[mid + 1] < x
             THEN bisect_left_from(a, x, mid + 1, hi)
             ELSE bisect_left_from(a, x, lo, mid)
    ELSE lo

bisect_left(a, x) == bisect_left_from(a, x, 0, Len(a))

_resolve_anchor(address, anchors) ==
    LET pos == bisect_left(anchors, address)
    IN  IF pos < Len(anchors) /\ anchors[pos + 1] = address THEN address
        ELSE IF pos > 0 THEN anchors[pos]
        ELSE address

\* int(text, 0) of a "0x" literal
int0(text) == int16(SubSeq(text, 3, Len(text)))

\* re.finditer(pattern, md_text) for a pattern of literal characters: the
\* matches from left to right, none overlapping another
RECURSIVE finditer(_, _, _)
finditer(pattern, md_text, i) ==
    IF i + Len(pattern) > Len(md_text) THEN <<>>
    ELSE IF Slice(md_text, i, i + Len(pattern)) = pattern
    THEN <<<<i, i + Len(pattern)>>>>
         \o finditer(pattern, md_text, i + Max(1, Len(pattern)))
    ELSE finditer(pattern, md_text, i + 1)

\* the anchors of the versions, as _apply_address_links receives them
VersionAnchors == [v \in {"nfs"} |-> <<32768, 32784>>]

\* the body of the loop of _apply_address_links for one link spec
address_replacement(md_text, link_spec, version_anchors) ==
    LET address     == int0(link_spec.address)
        anchor_addr == IF link_spec.version \in DOMAIN version_anchors
                       THEN _resolve_anchor(address, version_anchors[link_spec.version])
                       ELSE address
        url         == link_spec.version \o ".html#addr-" \o Hex4(anchor_addr)
        matches     == finditer(link_spec.pattern, md_text, 0)
        idx         == select_index(link_spec.occurrence, Len(matches))
    IN  IF matches = <<>> THEN <<>>
        ELSE IF idx < 0 \/ idx >= Len(matches) THEN <<>>
        ELSE LET start == matches[idx + 1][1]
                 end   == matches[idx + 1][2]
             IN  <<[start |-> start, end |-> end,
                    replacement |-> <<"[">> \o Slice(md_text, start, end)
                                    \o <<"](" \o url \o ")">>]>>

RECURSIVE address_replacements(_, _, _)
address_replacements(md_text, address_links, version_anchors) ==
    IF address_links = <<>> THEN <<>>
    ELSE address_replacement(md_text, Head(address_links), version_anchors)
         \o address_replacements(md_text, Tail(address_links), version_anchors)

_apply_address_links(md_text, address_links, version_anchors) ==
    LET replacements == address_replacements(md_text, address_links, version_anchors)
    IN  [replacements |-> replacements,
         text |-> apply_replacements(md_text, sort_by_start_reverse(replacements))]

(***************************************************************************)
(* Specification Spec: the address index is built from the items and       *)
(* queried.                                                                *)
(***************************************************************************)
IdleResolve ==
    /\ valid_addrs = {}
    /\ resolve_in = 0
    /\ resolve_out = NoneAddr
    /\ resolve_pc = "idle"

IdleLinkify ==
    /\ comment_raw = <<>>
    /\ comment_html = <<>>
    /\ linkify_pc = "idle"

IdleWrap ==
    /\ wrap_args = [text |-> <<>>, first_line_budget |-> 0,
                    continuation_indent |-> 0, max_width |-> 0]
    /\ wrap = [pc |-> "idle"]

IdleBreak ==
    /\ break_args = [word |-> <<>>, budget |-> 0]
    /\ break_pos = 0
    /\ break_pc = "idle"

IdleParse ==
    /\ glossary_md = <<>>
    /\ glossary = <<>>
    /\ parse_pc = "idle"

IdleDoc ==
    /\ html_doc = <<>>
    /\ links = <<>>
    /\ link_pc = "idle"
    /\ find_pattern = <<>>
    /\ find_matches = <<>>
    /\ glossary_out = [replacements |-> <<>>, text |-> <<>>]
    /\ address_out = [replacements |-> <<>>, text |-> <<>>]

\* one more item in data["items"]: its addr joins the valid set
AddItem(a) ==
    /\ a \notin valid_addrs
    /\ valid_addrs' = valid_addrs \cup {a}
    /\ resolve_pc' = "idle"
    /\ UNCHANGED <<resolve_in, resolve_out>>
    /\ UNCHANGED <<varsLinkify, varsWrap, varsBreak, varsParse, varsDoc, varsOperand, varsData, varsListing>>

\* a call _resolve_addr(a, valid_addrs, sorted_addrs)
Resolve(a) ==
    /\ resolve_in' = a
    /\ resolve_out' = _resolve_addr(a, valid_addrs, sorted(valid_addrs))
    /\ resolve_pc' = "done"
    /\ UNCHANGED valid_addrs
    /\ UNCHANGED <<varsLinkify, varsWrap, varsBreak, varsParse, varsDoc, varsOperand, varsData, varsListing>>

IdleOperand ==
    /\ operand_item = [type |-> "code", mnemonic |-> <<"j", "s", "r">>, operand |-> <<>>]
    /\ operand_valid = {}
    /\ operand_out = <<>>
    /\ operand_pc = "idle"

IdleData ==
    /\ data_item = [type |-> "byte", values |-> <<>>]
    /\ data_width = CONTENT_MAX_WIDTH
    /\ data_html = <<>>
    /\ data_pc = "idle"

IdleListing ==
    /\ listing = [items |-> <<>>, subroutines |-> <<>>]
    /\ listing_out = <<>>
    /\ listing_pc = "idle"

IdleRest == IdleOperand /\ IdleData /\ IdleListing

Init == IdleResolve /\ IdleLinkify /\ IdleWrap /\ IdleBreak /\ IdleParse /\ IdleDoc /\ IdleRest

Next ==
    \/ \E a \in 0..MaxAddr : AddItem(a)
    \/ \E a \in 0..MaxAddr : Resolve(a)

Spec == Init /\ [][Next]_vars

\* C1: _resolve_addr returns a when a is valid, otherwise the greatest valid
\* address strictly less than a, and None exactly when no valid address is
\* less than or equal to a.
C1_ResolveNearestPreceding ==
    resolve_pc = "done" =>
        LET below == {v \in valid_addrs : v <= resolve_in}
        IN  /\ resolve_in \in valid_addrs => resolve_out = resolve_in
            /\ (resolve_in \notin valid_addrs /\ below # {}) =>
                   /\ resolve_out = SetMax(below)
                   /\ resolve_out < resolve_in
            /\ (resolve_out = NoneAddr) <=> (below = {})
            /\ (valid_addrs # {} /\ resolve_in > SetMax(valid_addrs)) =>
                   resolve_out = SetMax(valid_addrs)

\* an invalid address between two valid ones resolved to the one below it
C1_Witness ==
    /\ resolve_pc = "done"
    /\ resolve_in \notin valid_addrs
    /\ Cardinality(valid_addrs) >= 3
    /\ resolve_out # NoneAddr
    /\ resolve_out < resolve_in
    /\ \E v \in valid_addrs : v > resolve_in

(***************************************************************************)
(* Specification SpecLinkify: a comment is typed character by character    *)
(* and handed to _linkify_comment_text.                                    *)
(***************************************************************************)
\* the characters of the comments: the marker, the character that disables
\* it, two hex digits and a lower-case hex digit
CommentChars == {"&", "#", "0", "F", "f"}

\* the valid address sets of the listings that the comments belong to
LinkifyListings == {{}, {15}, {15, 3840}, {61440}}

InitLinkify ==
    /\ valid_addrs \in LinkifyListings
    /\ resolve_in = 0
    /\ resolve_out = NoneAddr
    /\ resolve_pc = "idle"
    /\ IdleLinkify
    /\ IdleWrap
    /\ IdleBreak
    /\ IdleParse
    /\ IdleDoc
    /\ IdleRest

TypeComment(c) ==
    /\ linkify_pc = "idle"
    /\ Len(comment_raw) < MaxCommentLen
    /\ comment_raw' = Append(comment_raw, c)
    /\ UNCHANGED <<comment_html, linkify_pc, varsResolve, varsWrap, varsBreak, varsParse, varsDoc, varsOperand, varsData, varsListing>>

Linkify ==
    /\ linkify_pc = "idle"
    /\ comment_html' = _linkify_comment_text(comment_raw, valid_addrs,
                                             sorted(valid_addrs))
    /\ linkify_pc' = "done"
    /\ UNCHANGED <<comment_raw, varsResolve, varsWrap, varsBreak, varsParse, varsDoc, varsOperand, varsData, varsListing>>

NextLinkify ==
    \/ \E c \in CommentChars : TypeComment(c)
    \/ Linkify

SpecLinkify == InitLinkify /\ [][NextLinkify]_vars

\* the references of a text that must become links: each "&" not preceded by
\* "#" whose run of hex digits is exactly 4 long and at or above some valid
\* address, as <<offset, link target, length of the link text>>
ExpectedLinks(text, valid) ==
    LET Qualifies(i) ==
            /\ text[i] = "&"
            /\ (i > 1 => text[i - 1] # "#")
            /\ i + 4 <= Len(text)
            /\ \A k \in 1..4 : text[i + k] \in HexChars
            /\ (i + 5 <= Len(text) => text[i + 5] \notin HexChars)
            /\ \E v \in valid : v <= int16(SubSeq(text, i + 1, i + 4))
        Target(i) ==
            SetMax({v \in valid : v <= int16(SubSeq(text, i + 1, i + 4))})
        RECURSIVE from(_)
        from(i) ==
            IF i > Len(text) THEN <<>>
            ELSE IF Qualifies(i) THEN <<<<i - 1, AnchorOpen(Target(i)), 5>>>> \o from(i + 1)
            ELSE from(i + 1)
    IN  from(1)

\* the links of a piece of markup, as <<offset in the visible text, opening
\* tag, length of the visible link text>>
LinksOf(markup) ==
    LET CloseAfter(k) ==
            CHOOSE j \in (k + 1)..(Len(markup) + 1) :
                /\ (j <= Len(markup) => markup[j] = AnchorClose)
                /\ \A m \in (k + 1)..(j - 1) : markup[m] # AnchorClose
        RECURSIVE from(_)
        from(k) ==
            IF k > Len(markup) THEN <<>>
            ELSE IF IsTag(markup[k]) /\ markup[k] # AnchorClose
            THEN <<<<Len(VisibleText(SubSeq(markup, 1, k - 1))), markup[k],
                     Len(VisibleText(SubSeq(markup, k + 1, CloseAfter(k) - 1)))>>>>
                 \o from(k + 1)
            ELSE from(k + 1)
    IN  from(1)

\* C10: in _linkify_comment_text a reference "&" + hex digits, not preceded by
\* "#", becomes a link exactly when its hex run is 4 digits long and some
\* valid address is at or below it; the link goes to the greatest such address
\* and shows the original &XXXX; every other character is escaped, unlinked.
C10_LinkifyCommentText ==
    linkify_pc = "done" =>
        /\ LinksOf(comment_html) = ExpectedLinks(comment_raw, valid_addrs)
        /\ VisibleText(comment_html) = comment_raw
        /\ \A k \in 1..Len(comment_html) :
               IsTag(comment_html[k]) =>
                   \/ comment_html[k] = AnchorClose
                   \/ \E v \in valid_addrs : comment_html[k] = AnchorOpen(v)

\* a 4-digit reference between two valid addresses was linked to the lower one
\* while being neither of them
C10_Witness ==
    /\ linkify_pc = "done"
    /\ valid_addrs = {15, 3840}
    /\ comment_raw = <<"&", "0", "0", "F", "f">>
    /\ comment_html = <<AnchorOpen(15), "&", "a", "m", "p", ";",
                        "0", "0", "F", "f", AnchorClose>>

(***************************************************************************)
(* Specification SpecWrap: a text is typed character by character, then    *)
(* _wrap_text runs on it step by step.                                     *)
(***************************************************************************)
\* a space, a letter, a digit and a separator
WrapChars == {" ", "a", "1", "-"}

\* first_line_budget: negative, zero and positive
WrapFirstBudgets == {-1, 0, 1, 2, 3}

\* <<max_width, continuation_indent>>: continuation budgets 1, 3, 2 and a
\* negative difference that is clamped to 1
WrapWidths == {<<1, 0>>, <<3, 0>>, <<4, 2>>, <<2, 4>>}

InitWrap ==
    /\ IdleResolve
    /\ IdleLinkify
    /\ \E b \in WrapFirstBudgets, wi \in WrapWidths :
           wrap_args = [text |-> <<>>, first_line_budget |-> b,
                        continuation_indent |-> wi[2], max_width |-> wi[1]]
    /\ wrap = [pc |-> "idle"]
    /\ IdleBreak
    /\ IdleParse
    /\ IdleDoc
    /\ IdleRest

TypeWrapText(c) ==
    /\ wrap.pc = "idle"
    /\ Len(wrap_args.text) < MaxWrapLen
    /\ wrap_args' = [wrap_args EXCEPT !.text = Append(@, c)]
    /\ UNCHANGED <<wrap, varsBreak, varsParse, varsResolve, varsLinkify, varsDoc, varsOperand, varsData, varsListing>>

\* the call: the locals are initialised
WrapCall ==
    /\ wrap.pc = "idle"
    /\ wrap' = WrapEntry(wrap_args.text, wrap_args.first_line_budget,
                         wrap_args.continuation_indent, wrap_args.max_width)
    /\ UNCHANGED <<wrap_args, varsBreak, varsParse, varsResolve, varsLinkify, varsDoc, varsOperand, varsData, varsListing>>

\* the for loop takes the next word, or the function returns
WrapFor ==
    /\ wrap.pc = "for"
    /\ wrap' = WrapStep(wrap)
    /\ UNCHANGED <<wrap_args, varsBreak, varsParse, varsResolve, varsLinkify, varsDoc, varsOperand, varsData, varsListing>>

\* one test of the forced-split loop, with its body when the test succeeds
WrapWhile ==
    /\ wrap.pc = "while"
    /\ wrap' = WrapStep(wrap)
    /\ UNCHANGED <<wrap_args, varsBreak, varsParse, varsResolve, varsLinkify, varsDoc, varsOperand, varsData, varsListing>>

NextWrap ==
    \/ \E c \in WrapChars : TypeWrapText(c)
    \/ WrapCall
    \/ WrapFor
    \/ WrapWhile

SpecWrap == InitWrap /\ [][NextWrap]_vars

\* the budget that applies to returned line k
WrapLineBudget(k) ==
    IF k = 1 THEN wrap_args.first_line_budget
    ELSE Max(1, wrap_args.max_width - wrap_args.continuation_indent)

\* C2 as stated: every returned line is within its budget, except lines of
\* exactly one character returned under a zero or negative budget.
C2_Original ==
    wrap.pc = "done" =>
        \A k \in 1..Len(wrap.result) :
            \/ Len(wrap.result[k]) <= WrapLineBudget(k)
            \/ (WrapLineBudget(k) <= 0 /\ Len(wrap.result[k]) = 1)

\* C2 (amended): every returned line has length at most its budget clamped to
\* 1, that is max(1, first_line_budget) for the first line and
\* max(1, max_width - continuation_indent) for the later ones; a line above
\* its unclamped budget has at most one character (it may be empty).
C2_LinesWithinClampedBudget ==
    wrap.pc = "done" =>
        \A k \in 1..Len(wrap.result) :
            Len(wrap.result[k]) <= Max(1, WrapLineBudget(k))

\* a word longer than both budgets was split over three lines, the first
\* budget being larger than the continuation budget
C2_Witness ==
    /\ wrap.pc = "done"
    /\ wrap_args.first_line_budget = 2
    /\ Max(1, wrap_args.max_width - wrap_args.continuation_indent) = 1
    /\ wrap_args.text = <<"a", " ", "a", "a", "a">>
    /\ wrap.result = << <<"a">>, <<"a">>, <<"a">>, <<"a">> >>

(***************************************************************************)
(* Documents.  A document is built as a sequence of pieces: a character of *)
(* text, the opening tag of an element or the closing tag of the element   *)
(* that is open, so that every document is well formed.  The functions see *)
(* its characters (RenderDoc).                                             *)
(***************************************************************************)
TextPiece(c) == [kind |-> "text", name |-> c]

OpenPiece(name) == [kind |-> "open", name |-> name]

ClosePiece(name) == [kind |-> "close", name |-> name]

ElementChars(name) ==
    IF name = "a" THEN <<"a">> ELSE <<"a", "b", "b", "r">>

\* the characters of one piece; an anchor carries an attribute
RenderPiece(piece) ==
    CASE piece.kind = "text" -> <<piece.name>>
      [] piece.kind = "open" ->
            <<"<">> \o ElementChars(piece.name)
            \o (IF piece.name = "a" THEN <<" ", "h">> ELSE <<>>) \o <<">">>
      [] OTHER -> <<"<", "/">> \o ElementChars(piece.name) \o <<">">>

RECURSIVE RenderDoc(_)
RenderDoc(doc) ==
    IF doc = <<>> THEN <<>> ELSE RenderPiece(Head(doc)) \o RenderDoc(Tail(doc))

\* the elements open at the end of the document, innermost last
RECURSIVE OpenStack(_)
OpenStack(doc) ==
    IF doc = <<>> THEN <<>>
    ELSE LET below == OpenStack(SubSeq(doc, 1, Len(doc) - 1))
             piece == doc[Len(doc)]
         IN  CASE piece.kind = "open" -> Append(below, piece.name)
               [] piece.kind = "close" -> SubSeq(below, 1, Len(below) - 1)
               [] OTHER -> below

\* for each character of the rendered document: whether it belongs to a tag,
\* and whether it lies in an <a> element (its tags included)
RECURSIVE DocContext(_)
DocContext(doc) ==
    IF doc = <<>> THEN <<>>
    ELSE LET front == SubSeq(doc, 1, Len(doc) - 1)
             piece == doc[Len(doc)]
             stack == OpenStack(front)
             in_a  == (\E k \in 1..Len(stack) : stack[k] = "a")
                      \/ (piece.kind = "open" /\ piece.name = "a")
         IN  DocContext(front)
             \o [k \in 1..Len(RenderPiece(piece)) |->
                    [tag |-> piece.kind # "text", anchor |-> in_a]]

DocTextChars == {"P", "a"}

DocElements == {"a", "abbr"}

TypeDocText(c, max_len) ==
    /\ link_pc = "idle"
    /\ Len(html_doc) < max_len
    /\ html_doc' = Append(html_doc, TextPiece(c))
    /\ UNCHANGED <<links, link_pc, find_pattern, find_matches, glossary_out, address_out>>
    /\ UNCHANGED <<varsResolve, varsLinkify, varsWrap, varsBreak, varsParse, varsOperand, varsData, varsListing>>

OpenElement(name, max_len) ==
    /\ link_pc = "idle"
    /\ Len(html_doc) + 1 < max_len
    /\ html_doc' = Append(html_doc, OpenPiece(name))
    /\ UNCHANGED <<links, link_pc, find_pattern, find_matches, glossary_out, address_out>>
    /\ UNCHANGED <<varsResolve, varsLinkify, varsWrap, varsBreak, varsParse, varsOperand, varsData, varsListing>>

CloseElement(max_len) ==
    /\ link_pc = "idle"
    /\ Len(html_doc) < max_len
    /\ OpenStack(html_doc) # <<>>
    /\ LET stack == OpenStack(html_doc)
       IN  html_doc' = Append(html_doc, ClosePiece(stack[Len(stack)]))
    /\ UNCHANGED <<links, link_pc, find_pattern, find_matches, glossary_out, address_out>>
    /\ UNCHANGED <<varsResolve, varsLinkify, varsWrap, varsBreak, varsParse, varsOperand, varsData, varsListing>>

(***************************************************************************)
(* Specification SpecFind: _find_text_occurrences on a document.           *)
(***************************************************************************)
FindPatterns == {<<"P">>, <<"a">>, <<"P", "a">>}

Find(pattern) ==
    /\ link_pc = "idle"
    /\ OpenStack(html_doc) = <<>>
    /\ find_pattern' = pattern
    /\ find_matches' = _find_text_occurrences(RenderDoc(html_doc), pattern)
    /\ link_pc' = "find"
    /\ UNCHANGED <<html_doc, links, glossary_out, address_out>>
    /\ UNCHANGED <<varsResolve, varsLinkify, varsWrap, varsBreak, varsParse, varsOperand, varsData, varsListing>>

NextFind ==
    \/ \E c \in DocTextChars : TypeDocText(c, MaxDocLen)
    \/ \E name \in DocElements : OpenElement(name, MaxDocLen)
    \/ CloseElement(MaxDocLen)
    \/ \E pattern \in FindPatterns : Find(pattern)

SpecFind == Init /\ [][NextFind]_vars

\* C4: every span that _find_text_occurrences returns lies outside the tags
\* and outside every <a>...</a> element of the document, also when the anchor
\* holds an element such as <abbr> whose closing tag begins with "/a".
C4_MatchesOutsideTagsAndAnchors ==
    link_pc = "find" =>
        LET ctx == DocContext(html_doc)
        IN  \A m \in 1..Len(find_matches) :
                \A p \in (find_matches[m][1] + 1)..find_matches[m][2] :
                    ~ctx[p].tag /\ ~ctx[p].anchor

(***************************************************************************)
(* Specification SpecLinks: a document and its link specs, handed to       *)
(* apply_glossary_links and to _apply_address_links.                       *)
(***************************************************************************)
\* what a link spec points at: its pattern, its glossary term, the version
\* and address of its anchor
LinkTargets ==
    {[pattern |-> <<"P">>, term |-> "BRKV", version |-> "nfs",
      address |-> <<"0", "x", "8", "0", "0", "0">>],
     [pattern |-> <<"a">>, term |-> "NMI", version |-> "nfs",
      address |-> <<"0", "x", "8", "0", "0", "5">>],
     [pattern |-> <<"P">>, term |-> "nope", version |-> "dnfs",
      address |-> <<"0", "x", "8", "0", "1", "1">>]}

LinkOccurrences == {-2, -1, 0, 1}

AddLink(target, occurrence) ==
    /\ link_pc = "idle"
    /\ Len(links) < MaxLinks
    /\ links' = Append(links,
                       [pattern |-> target.pattern, occurrence |-> occurrence,
                        term |-> target.term, version |-> target.version,
                        address |-> target.address])
    /\ UNCHANGED <<html_doc, link_pc, find_pattern, find_matches, glossary_out, address_out>>
    /\ UNCHANGED <<varsResolve, varsLinkify, varsWrap, varsBreak, varsParse, varsOperand, varsData, varsListing>>

ApplyGlossaryLinks ==
    /\ link_pc = "idle"
    /\ OpenStack(html_doc) = <<>>
    /\ glossary_out' = apply_glossary_links(RenderDoc(html_doc), links, GlossaryLookup)
    /\ link_pc' = "glossary"
    /\ UNCHANGED <<html_doc, links, find_pattern, find_matches, address_out>>
    /\ UNCHANGED <<varsResolve, varsLinkify, varsWrap, varsBreak, varsParse, varsOperand, varsData, varsListing>>

ApplyAddressLinks ==
    /\ link_pc = "idle"
    /\ OpenStack(html_doc) = <<>>
    /\ address_out' = _apply_address_links(RenderDoc(html_doc), links, VersionAnchors)
    /\ link_pc' = "address"
    /\ UNCHANGED <<html_doc, links, find_pattern, find_matches, glossary_out>>
    /\ UNCHANGED <<varsResolve, varsLinkify, varsWrap, varsBreak, varsParse, varsOperand, varsData, varsListing>>

NextLinks ==
    \/ \E c \in DocTextChars : TypeDocText(c, MaxLinkedDocLen)
    \/ OpenElement("a", MaxLinkedDocLen)
    \/ CloseElement(MaxLinkedDocLen)
    \/ \E target \in LinkTargets, occurrence \in LinkOccurrences :
           AddLink(target, occurrence)
    \/ ApplyGlossaryLinks
    \/ ApplyAddressLinks

SpecLinks == Init /\ [][NextLinks]_vars

\* the match that a link spec selects among n matches, 0-based, or -1
SelectedMatch(occurrence, n) ==
    IF 0 <= occurrence /\ occurrence < n THEN occurrence
    ELSE IF -n <= occurrence /\ occurrence < 0 THEN n + occurrence
    ELSE -1

\* the opening tag of a glossary link, as it is written to the page
ExpectedGlossaryTag(term) ==
    IF term = "BRKV"
    THEN "<a href=\"glossary.html#term-brkv\" class=\"glossary-ref\" data-tip=\"BV: MOS\">"
    ELSE "<a href=\"glossary.html#term-nmi\" class=\"glossary-ref\" data-tip=\"IRQ&amp;\">"

\* link spec k of the glossary links is applied: its term is known, its
\* pattern has a match and its occurrence is in range
GlossaryApplies(k) ==
    /\ links[k].term \in GlossaryTerms
    /\ SelectedMatch(links[k].occurrence,
                     Len(_find_text_occurrences(RenderDoc(html_doc), links[k].pattern))) >= 0

\* link spec k of the address links is applied
AddressApplies(k) ==
    SelectedMatch(links[k].occurrence,
                  Len(finditer(links[k].pattern, RenderDoc(html_doc), 0))) >= 0

\* C5: a link spec with a known term and n >= 1 eligible matches selects match
\* occurrence (0 <= occurrence < n) or match n + occurrence (-n <= occurrence
\* < 0) and replaces exactly that span by an anchor to glossary.html#term-slug
\* whose tooltip is "expansion: brief", or "brief" alone without an expansion.
C5_OccurrenceSelectsMatch ==
    link_pc = "glossary" =>
        LET html == RenderDoc(html_doc)
        IN  /\ \A k \in 1..Len(links) :
                   GlossaryApplies(k) =>
                       LET matches == _find_text_occurrences(html, links[k].pattern)
                           sel     == matches[SelectedMatch(links[k].occurrence,
                                                            Len(matches)) + 1]
                           rank    == Cardinality({j \in 1..k : GlossaryApplies(j)})
                       IN  /\ rank <= Len(glossary_out.replacements)
                           /\ glossary_out.replacements[rank] =
                                  [start |-> sel[1], end |-> sel[2],
                                   replacement |->
                                       <<ExpectedGlossaryTag(links[k].term)>>
                                       \o escape(Slice(html, sel[1], sel[2]))
                                       \o <<AnchorClose>>]
            /\ (Len(links) = 1 /\ GlossaryApplies(1)) =>
                   LET r == glossary_out.replacements[1]
                   IN  glossary_out.text =
                           Slice(html, 0, r.start) \o r.replacement
                           \o Slice(html, r.end, Len(html))

\* occurrence -1 selected the last of three matches, and the entry with an
\* expansion gave the tooltip
C5_Witness ==
    /\ link_pc = "glossary"
    /\ html_doc = <<TextPiece("P"), TextPiece("P"), TextPiece("P")>>
    /\ Len(links) = 1
    /\ links[1].term = "BRKV"
    /\ links[1].occurrence = -1
    /\ glossary_out.text =
           <<"P", "P",
             "<a href=\"glossary.html#term-brkv\" class=\"glossary-ref\" data-tip=\"BV: MOS\">",
             "P", "</a>">>

\* C6: a link spec whose term is unknown, whose pattern has no match or whose
\* occurrence is out of range contributes no replacement, and the other specs
\* are applied as if it were absent; when every spec is skipped the text is
\* returned unchanged.  In apply_glossary_links and in _apply_address_links.
C6_SkippedSpecsLeaveOthersApplied ==
    LET text    == RenderDoc(html_doc)
        all     == 1..Len(links)
        Kept(applies(_)) ==
            LET RECURSIVE from(_)
                from(k) == IF k > Len(links) THEN <<>>
                           ELSE (IF applies(k) THEN <<links[k]>> ELSE <<>>) \o from(k + 1)
            IN  from(1)
    IN  /\ link_pc = "glossary" =>
               LET kept == Kept(GlossaryApplies)
               IN  /\ Len(glossary_out.replacements) = Len(kept)
                   /\ glossary_out.text =
                          apply_glossary_links(text, kept, GlossaryLookup).text
                   /\ kept = <<>> => glossary_out.text = text
        /\ link_pc = "address" =>
               LET kept == Kept(AddressApplies)
               IN  /\ Len(address_out.replacements) = Len(kept)
                   /\ address_out.text =
                          _apply_address_links(text, kept, VersionAnchors).text
                   /\ kept = <<>> => address_out.text = text

\* a spec with an unknown term is skipped and the spec after it is applied
C6_Witness ==
    /\ link_pc = "glossary"
    /\ Len(links) = 2
    /\ links[1].term = "nope"
    /\ ~GlossaryApplies(1)
    /\ GlossaryApplies(2)
    /\ Len(glossary_out.replacements) = 1
    /\ glossary_out.text # RenderDoc(html_doc)


(***************************************************************************)
(* SpecOperand: a code item is built, then its operand is rendered.        *)
(***************************************************************************)
MaxOperandLen == 3

OperandChars == {"&", "p", "t", "<"}

OperandLabels == {<<"p">>, <<"t", "p">>, <<"<">>}

OperandTargets == {15, 8192}

OperandListings == {{}, {15}, {15, 8192}}

InitOperand ==
    /\ IdleResolve
    /\ IdleLinkify
    /\ IdleWrap
    /\ IdleBreak
    /\ IdleParse
    /\ IdleDoc
    /\ IdleData
    /\ IdleListing
    /\ operand_item = [type |-> "code", mnemonic |-> <<"j", "s", "r">>, operand |-> <<>>]
    /\ operand_valid \in OperandListings
    /\ operand_out = <<>>
    /\ operand_pc = "idle"

TypeOperand(c) ==
    /\ operand_pc = "idle"
    /\ Len(operand_item.operand) < MaxOperandLen
    /\ operand_item' = [operand_item EXCEPT !.operand = Append(@, c)]
    /\ UNCHANGED <<operand_valid, operand_out, operand_pc>>
    /\ UNCHANGED <<varsResolve, varsLinkify, varsWrap, varsBreak, varsParse, varsDoc, varsData, varsListing>>

SetTarget(target_label, target) ==
    /\ operand_pc = "idle"
    /\ "target" \notin DOMAIN operand_item
    /\ operand_item' = [key \in DOMAIN operand_item \cup {"target", "target_label"} |->
                           CASE key = "target" -> target
                             [] key = "target_label" -> target_label
                             [] OTHER -> operand_item[key]]
    /\ UNCHANGED <<operand_valid, operand_out, operand_pc>>
    /\ UNCHANGED <<varsResolve, varsLinkify, varsWrap, varsBreak, varsParse, varsDoc, varsData, varsListing>>

LinkifyOperand ==
    /\ operand_pc = "idle"
    /\ operand_out' = _linkify_operand(operand_item.operand, operand_item, operand_valid)
    /\ operand_pc' = "done"
    /\ UNCHANGED <<operand_item, operand_valid>>
    /\ UNCHANGED <<varsResolve, varsLinkify, varsWrap, varsBreak, varsParse, varsDoc, varsData, varsListing>>

NextOperand ==
    \/ \E c \in OperandChars : TypeOperand(c)
    \/ \E target_label \in OperandLabels, target \in OperandTargets :
           SetTarget(target_label, target)
    \/ LinkifyOperand

SpecOperand == InitOperand /\ [][NextOperand]_vars

\* the operand with the first occurrence of the label wrapped, the rest escaped
WrappedAtFirstOccurrence(operand, target_label, open, close) ==
    LET at == find(operand, target_label)
    IN  escape(Slice(operand, 0, at)) \o <<open>> \o escape(target_label) \o <<close>>
        \o escape(Slice(operand, at + Len(target_label), Len(operand)))

\* C8: for a code item with target and target_label whose operand contains the
\* label, the rendered operand is the operand with the first occurrence of the
\* label wrapped, in an anchor to #addr-<target, 4 uppercase hex digits> when
\* target is a valid address and in an ext-label span when it is not, and the
\* rest of the operand text is unchanged.
C8_LabelWrappedAtFirstOccurrence ==
    (/\ operand_pc = "done"
     /\ "target" \in DOMAIN operand_item
     /\ find(operand_item.operand, operand_item.target_label) >= 0)
    => operand_out =
           IF operand_item.target \in operand_valid
           THEN WrappedAtFirstOccurrence(operand_item.operand, operand_item.target_label,
                                         TargetAnchorOpen(operand_item.target), AnchorClose)
           ELSE WrappedAtFirstOccurrence(operand_item.operand, operand_item.target_label,
                                         ExtLabelOpen(operand_item.target), SpanClose)

(***************************************************************************)
(* SpecData: a byte or word item is built, then its content is rendered.   *)
(***************************************************************************)
MaxValues == 4

DataValues == {0, 65, 255}

DataWidths == {12, 14, 17, 19, 21, 26, CONTENT_MAX_WIDTH}

DataValueWidth(item) == IF item.type = "byte" THEN 3 ELSE 5

InitData ==
    /\ IdleResolve
    /\ IdleLinkify
    /\ IdleWrap
    /\ IdleBreak
    /\ IdleParse
    /\ IdleDoc
    /\ IdleOperand
    /\ IdleListing
    /\ \E type \in {"byte", "word"} : data_item = [type |-> type, values |-> <<>>]
    /\ data_width \in DataWidths
    /\ data_html = <<>>
    /\ data_pc = "idle"

AddValue(v) ==
    /\ data_pc = "idle"
    /\ Len(data_item.values) < MaxValues
    /\ data_item' = [data_item EXCEPT !.values = Append(@, v)]
    /\ UNCHANGED <<data_width, data_html, data_pc>>
    /\ UNCHANGED <<varsResolve, varsLinkify, varsWrap, varsBreak, varsParse, varsDoc, varsOperand, varsListing>>

RenderData ==
    /\ data_pc = "idle"
    /\ data_html' = _render_content(data_item, {}, data_width)
    /\ data_pc' = "done"
    /\ UNCHANGED <<data_item, data_width>>
    /\ UNCHANGED <<varsResolve, varsLinkify, varsWrap, varsBreak, varsParse, varsDoc, varsOperand, varsListing>>

NextData ==
    \/ \E v \in DataValues : AddValue(v)
    \/ RenderData

SpecData == InitData /\ [][NextData]_vars

\* the visible rows of the rendered content
DataRows == split_lines(VisibleText(data_html))

\* C9: for a byte or word item and a budget that holds the 9-column prefix and
\* one value, every visible row of the rendered content, the comma that ends a
\* non-final row included, is at most max_width wide, and every continuation
\* row is indented by exactly the prefix width.
C9_RowsWithinBudget ==
    (/\ data_pc = "done"
     /\ data_width >= 9 + DataValueWidth(data_item))
    => /\ \A k \in 1..Len(DataRows) : Len(DataRows[k]) <= data_width
       /\ \A k \in 2..Len(DataRows) :
              /\ Len(DataRows[k]) > 9
              /\ SubSeq(DataRows[k], 1, 9) = Spaces(9)
              /\ DataRows[k][10] = "&"

(***************************************************************************)
(* SpecListing: a listing is built item by item, then processed.           *)
(***************************************************************************)
MaxItems == 2

\* the addresses of the items, in listing order
ListingAddr(k) == 32768 + 3 * (k - 1)

\* items as the disassembler writes them, without their addr
ListingItems ==
    { [type |-> "code", mnemonic |-> <<"r", "t", "s">>],
      [type |-> "code", mnemonic |-> <<"l", "d", "a">>, operand |-> <<"#", "1">>, bytes |-> <<169, 1>>,
       comment_inline |-> <<"o", "k">>],
      [type |-> "code", mnemonic |-> <<"j", "m", "p">>, operand |-> <<"g", "o">>, target |-> 32768,
       target_label |-> <<"g", "o">>, labels |-> <<<<"g", "o">>, <<"l", "2">>>>, references |-> <<32771, 4660>>,
       comment_inline |-> <<"s", "e", "e", " ", "8", "0", "0", "3">>],
      [type |-> "byte", values |-> <<0, 65>>, comment_inline |-> <<"x">>,
       comments_before |-> <<<<"h", "i">>>>],
      [type |-> "word", values |-> <<0, 1, 2, 3, 4, 5, 6, 7, 8>>,
       comment_inline |-> <<"a", "b">>],
      [type |-> "string", string |-> <<"h", "i">>, comment_inline |-> <<"t", "e", "x", "t">>,
       comments_before |-> <<<<"&", "1", "2", "3", "6", " ", "r", "e", "f", "e", "r", "e", "n", "c", "e", "d", " ", "b", "y", " ", "g", "o">>, <<"*", "*", "*", "*">>>>, comments_after |-> <<<<"&", "1", "2", "3", "6", " ", "r", "e", "f", "e", "r", "e", "n", "c", "e", "d", " ", "b", "y", " ", "g", "o">>>>],
      [type |-> "code", mnemonic |-> <<"r", "t", "s">>, binary_addr |-> 36864,
       comments_before |-> <<<<"T", " ", "m", "o", "r", "e">>, <<" ", " ", "p", "r", "e", "\n", "\n", "e", "n", "d">>>>, comments_after |-> <<<<"h", "i">>>>] }

\* subroutines, without their addr
ListingSubroutines ==
    { [name |-> <<"s">>, fall_through |-> TRUE],
      [name |-> <<"s">>, title |-> <<"T">>, description |-> <<"d", "o", "e", "s", " ", "&", "8", "0", "0", "0", "\n", " ", " ", "x">>],
      [title |-> <<"T">>, fall_through |-> TRUE, on_entry |-> << <<<<"a">>, <<"v", "a", "l", "u", "e">>>> >>] }

\* the record with one more key
With(d, key, value) ==
    [k \in DOMAIN d \cup {key} |-> IF k = key THEN value ELSE d[k]]

InitListing ==
    /\ IdleResolve
    /\ IdleLinkify
    /\ IdleWrap
    /\ IdleBreak
    /\ IdleParse
    /\ IdleDoc
    /\ IdleOperand
    /\ IdleData
    /\ IdleListing

AddListingItem(item) ==
    /\ listing_pc = "idle"
    /\ Len(listing.items) < MaxItems
    /\ listing' = [listing EXCEPT !.items =
                      Append(@, With(item, "addr", ListingAddr(Len(listing.items) + 1)))]
    /\ UNCHANGED <<listing_out, listing_pc>>
    /\ UNCHANGED <<varsResolve, varsLinkify, varsWrap, varsBreak, varsParse, varsDoc, varsOperand, varsData>>

AddSubroutine(sub) ==
    /\ listing_pc = "idle"
    /\ listing.items # <<>>
    /\ LET addr == listing.items[Len(listing.items)].addr
       IN  /\ \A k \in 1..Len(listing.subroutines) : listing.subroutines[k].addr # addr
           /\ listing' = [listing EXCEPT !.subroutines = Append(@, With(sub, "addr", addr))]
    /\ UNCHANGED <<listing_out, listing_pc>>
    /\ UNCHANGED <<varsResolve, varsLinkify, varsWrap, varsBreak, varsParse, varsDoc, varsOperand, varsData>>

ProcessDisassembly ==
    /\ listing_pc = "idle"
    /\ listing_out' = [lines |-> listing_lines(listing),
                       sections |-> process_disassembly(listing)]
    /\ listing_pc' = "done"
    /\ UNCHANGED listing
    /\ UNCHANGED <<varsResolve, varsLinkify, varsWrap, varsBreak, varsParse, varsDoc, varsOperand, varsData>>

NextListing ==
    \/ \E item \in ListingItems : AddListingItem(item)
    \/ \E sub \in ListingSubroutines : AddSubroutine(sub)
    \/ ProcessDisassembly

SpecListing == InitListing /\ [][NextListing]_vars

\* the lines of all the sections returned, in order
ReturnedLines ==
    Flatten([s \in 1..Len(listing_out.sections) |-> listing_out.sections[s].lines])

\* the visible column at which the comment span of a line opens
CommentColumn(html) ==
    LET at   == SetMin({k \in 1..Len(html) : html[k] = CommentOpen})
        rows == split_lines(VisibleText(SubSeq(html, 1, at - 1)))
    IN  Len(rows[Len(rows)])

\* the commented lines of a block of the lines before alignment
CommentedOf(block) ==
    {block[k] : k \in 1..Len(block)}
    \cap {i \in 1..Len(listing_out.lines) : IsCommented(listing_out.lines[i])}

\* C3: after _align_inline_comments, in each block every line that carries an
\* inline comment has its comment open at the same visible column, the maximum
\* visible content width among the block's commented lines plus 2, whatever the
\* kind of the content line and however many rows its content takes.
C3_CommentsAlignedPerBlock ==
    listing_pc = "done" =>
        LET blocks == _split_into_blocks(listing_out.lines)
        IN  \A b \in 1..Len(blocks) :
                \A i \in CommentedOf(blocks[b]) :
                    CommentColumn(ReturnedLines[i].html)
                    = SetMax({_visible_width(listing_out.lines[j].html) :
                                  j \in CommentedOf(blocks[b])}) + 2

\* the comments of a list that are not reference comments
WithoutReferenceComments(item) ==
    [key \in DOMAIN item |->
        IF key \in {"comments_before", "comments_after"}
        THEN SelectSeq(item[key], LAMBDA c : ~_is_reference_comment(c))
        ELSE item[key]]

\* C7: a raw comment block that begins with & and contains the word referenced
\* produces no line in the output of process_disassembly, in comments_before
\* and in comments_after alike: the output is that of the listing without
\* these comments.
C7_ReferenceCommentsProduceNoLine ==
    listing_pc = "done" =>
        listing_out.sections =
            process_disassembly(
                [listing EXCEPT !.items =
                    [k \in 1..Len(listing.items) |->
                        WithoutReferenceComments(listing.items[k])]])

(***************************************************************************)
(* SpecComments: one item with one comment, typed character by character   *)
(* and optionally made longer than a line, then processed.                 *)
(***************************************************************************)
MaxTypedLen == 3

TypedChars == {"&", "<", " ", "a"}

\* a text longer than the widest line
Filler ==
    <<"a", "<", "b", " ", "&", "8", "0", "0", "0", " ", "a", "<", "b", " ",
    "&", "8", "0", "0", "0", " ", "a", "<", "b", " ", "&", "8", "0", "0",
    "0", " ", "a", "<", "b", " ", "&", "8", "0", "0", "0", " ", "a", "<",
    "b", " ", "&", "8", "0", "0", "0", " ", "a", "<", "b", " ", "&", "8",
    "0", "0", "0", " ", "a", "<", "b", " ", "&", "8", "0", "0", "0", " ">>

CommentKeys == {"comments_before", "comments_after", "comment_inline"}

CommentedItems ==
    { [addr |-> 32768, type |-> "code", mnemonic |-> <<"r", "t", "s">>],
      [addr |-> 32768, type |-> "string", string |-> <<"h", "i">>] }

\* the key that holds the comment of the item, and the comment
CommentKey == CHOOSE key \in CommentKeys : key \in DOMAIN listing.items[1]

RawComment ==
    IF CommentKey = "comment_inline" THEN listing.items[1].comment_inline
    ELSE listing.items[1][CommentKey][1]

SetRawComment(text) ==
    listing' = [listing EXCEPT !.items[1] =
                   With(@, CommentKey, IF CommentKey = "comment_inline" THEN text
                                       ELSE <<text>>)]

InitComments ==
    /\ IdleResolve
    /\ IdleLinkify
    /\ IdleWrap
    /\ IdleBreak
    /\ IdleParse
    /\ IdleDoc
    /\ IdleOperand
    /\ IdleData
    /\ \E item \in CommentedItems, key \in CommentKeys :
           listing = [items |-> <<With(item, key, IF key = "comment_inline" THEN <<>>
                                                 ELSE << <<>> >>)>>,
                      subroutines |-> <<>>]
    /\ listing_out = <<>>
    /\ listing_pc = "idle"

TypeListingComment(c) ==
    /\ listing_pc = "idle"
    /\ Len(RawComment) % Len(Filler) < MaxTypedLen
    /\ SetRawComment(Append(RawComment, c))
    /\ UNCHANGED <<listing_out, listing_pc>>
    /\ UNCHANGED <<varsResolve, varsLinkify, varsWrap, varsBreak, varsParse, varsDoc, varsOperand, varsData>>

FillListingComment ==
    /\ listing_pc = "idle"
    /\ Len(RawComment) < Len(Filler)
    /\ SetRawComment(RawComment \o Filler)
    /\ UNCHANGED <<listing_out, listing_pc>>
    /\ UNCHANGED <<varsResolve, varsLinkify, varsWrap, varsBreak, varsParse, varsDoc, varsOperand, varsData>>

NextComments ==
    \/ \E c \in TypedChars : TypeListingComment(c)
    \/ FillListingComment
    \/ ProcessDisassembly

SpecComments == InitComments /\ [][NextComments]_vars

\* the lines returned that hold a comment span, and the text shown from the
\* "; " marker on
CommentLines ==
    {i \in 1..Len(ReturnedLines) :
        \E k \in 1..Len(ReturnedLines[i].html) : ReturnedLines[i].html[k] = CommentOpen}

ShownComment(html) ==
    LET at == SetMin({k \in 1..Len(html) : html[k] = CommentOpen})
    IN  VisibleText(SubSeq(html, at + 1, Len(html)))

\* the raw comment behind its marker, cut into rows where the renderer wraps it
ExpectedComment(raw, first_budget, indent, max_width, fits) ==
    <<";", " ">>
    \o (IF fits THEN raw
        ELSE join(<<"\n">> \o indent, _wrap_text(raw, first_budget, Len(indent), max_width)))

\* C11: on every path through the comment renderer (short, preformatted,
\* wrapped, aligned inline, wrapped inline) the raw text is escaped exactly
\* once: the rendered comment, its tags removed and its entities decoded once,
\* reads as the "; " marker and the raw text, with the line breaks, markers and
\* indents that wrapping put between its pieces.
C11_CommentEscapedOnce ==
    (listing_pc = "done" /\ listing.subroutines = <<>> /\ Len(listing.items) = 1
     /\ Cardinality(DOMAIN listing.items[1] \cap CommentKeys) = 1)
    => IF CommentKey = "comment_inline"
       THEN LET col == _visible_width(listing_out.lines[1].html) + 4
            IN  IF RawComment = <<>> THEN CommentLines = {}
                ELSE /\ CommentLines = {1}
                     /\ ShownComment(ReturnedLines[1].html)
                        = ExpectedComment(RawComment, CONTENT_MAX_WIDTH - col, Spaces(col),
                                          CONTENT_MAX_WIDTH,
                                          col + Len(RawComment) <= CONTENT_MAX_WIDTH)
       ELSE IF strip(RawComment) = <<>> THEN CommentLines = {}
       ELSE /\ Cardinality(CommentLines) = 1
            /\ \A i \in CommentLines :
                   ShownComment(ReturnedLines[i].html)
                   = ExpectedComment(RawComment, CONTENT_MAX_WIDTH - 2, <<";", " ">>,
                                     CONTENT_MAX_WIDTH,
                                     \/ StartsWith(RawComment, <<" ", " ">>)
                                     \/ 2 + Len(RawComment) <= CONTENT_MAX_WIDTH)

\* a comment with "&" and "<" typed before the filler was wrapped over several
\* rows, as a comment block or as an inline comment
C11_Witness ==
    /\ listing_pc = "done"
    /\ Len(RawComment) > Len(Filler)
    /\ SubSeq(RawComment, 1, 2) = <<"&", "<">>
    /\ CommentKey = "comment_inline"
    /\ \E k \in 1..Len(ReturnedLines[1].html) : ReturnedLines[1].html[k] = "\n"

\* ---------------------------------------------------------------------
\* Row ids and primary address labels
\* ---------------------------------------------------------------------

\* the positions of the returned lines that carry the given id
IdLines(addr) ==
    {i \in 1..Len(ReturnedLines) : ReturnedLines[i].id = "addr-" \o Hex4(addr)}

\* the positions of the returned lines that show the given primary address
AddrLines(addr) ==
    {i \in 1..Len(ReturnedLines) : ReturnedLines[i].addr = Hex4(addr)}

\* the positions of the label lines and the content line of the item at addr
AddressedLines(addr) ==
    {i \in 1..Len(ReturnedLines) :
        Get(ReturnedLines[i], "addr_id", None) = "addr-" \o Hex4(addr)}

IsLabelLine(line) == line.html # <<>> /\ line.html[1] = LabelOpen

\* C12: every item has exactly one line with its id (the banner line of a
\* titled subroutine, otherwise the first label line, otherwise the content
\* line) and exactly one line with its address (the first label line,
\* otherwise the content line); no id and no address is on two lines
C12_OneIdAndOneAddressPerItem ==
    listing_pc = "done" =>
        /\ \A k \in 1..Len(listing.items) :
              LET item      == listing.items[k]
                  labelled  == Get(item, "labels", <<>>) # <<>>
                  titled    == HasTitle(by_addr(listing.subroutines), item.addr)
                  addressed == AddressedLines(item.addr)
                  first     == SetMin(addressed)
              IN  /\ Cardinality(addressed) = Len(Get(item, "labels", <<>>)) + 1
                  /\ labelled <=> IsLabelLine(ReturnedLines[first])
                  /\ Cardinality(IdLines(item.addr)) = 1
                  /\ \A i \in IdLines(item.addr) :
                        IF titled
                        THEN Get(ReturnedLines[i], "banner", FALSE) /\ i < first
                        ELSE i = first
                  /\ AddrLines(item.addr) = {first}
        /\ \A i, j \in 1..Len(ReturnedLines) :
              i # j =>
                 /\ ReturnedLines[i].id = ReturnedLines[j].id
                        => ReturnedLines[i].id = None
                 /\ ReturnedLines[i].addr = ReturnedLines[j].addr
                        => ReturnedLines[i].addr = None

\* a listing was rendered in which a titled subroutine starts at an item
\* with two labels, next to an item without labels
C12_Witness ==
    /\ listing_pc = "done"
    /\ Len(listing.items) = 2
    /\ \E k \in 1..2 :
          /\ Len(Get(listing.items[k], "labels", <<>>)) = 2
          /\ HasTitle(by_addr(listing.subroutines), listing.items[k].addr)
          /\ \E i \in IdLines(listing.items[k].addr) :
                /\ Get(ReturnedLines[i], "banner", FALSE)
                /\ ReturnedLines[i].addr = None
    /\ \E k \in 1..2 : "labels" \notin DOMAIN listing.items[k]

\* ---------------------------------------------------------------------
\* Order of the returned lines
\* ---------------------------------------------------------------------

\* the returned lines that show a primary address, in output order
AddressLabels ==
    LET shown == SelectSeq(ReturnedLines, LAMBDA line : line.addr # None)
    IN  [i \in 1..Len(shown) |-> shown[i].addr]

\* the item address a primary address label stands for
LabelAddr(label) ==
    CHOOSE addr \in {listing.items[k].addr : k \in 1..Len(listing.items)} :
        Hex4(addr) = label

StrictlyIncreasing(s) == \A i \in 1..Len(s) - 1 : s[i] < s[i + 1]

\* a returned line is the line built for the item, less its internal keys,
\* with at most an inline comment added at the end of its html
SameLine(returned, built) ==
    /\ DOMAIN returned = DOMAIN built \ {"_inline_comment", "_max_width"}
    /\ \A key \in DOMAIN returned \ {"html"} : returned[key] = built[key]
    /\ StartsWith(returned.html, built.html)

\* C13: with the items in strictly increasing address order, the primary
\* address labels of the returned lines are strictly increasing in output
\* order, and the lines returned are the lines built, in the same order,
\* none dropped and none added
C13_AddressesIncreaseAndLinesKept ==
    (/\ listing_pc = "done"
     /\ StrictlyIncreasing([k \in 1..Len(listing.items) |-> listing.items[k].addr]))
    => /\ \A i \in 1..Len(AddressLabels) :
             \E k \in 1..Len(listing.items) :
                Hex4(listing.items[k].addr) = AddressLabels[i]
       /\ StrictlyIncreasing([i \in 1..Len(AddressLabels) |-> LabelAddr(AddressLabels[i])])
       /\ Len(ReturnedLines) = Len(listing_out.lines)
       /\ \A i \in 1..Len(ReturnedLines) :
             SameLine(ReturnedLines[i], listing_out.lines[i])

\* two items were rendered into more than one section, with a fall-through
\* marker, a banner and an aligned inline comment among the lines
C13_Witness ==
    /\ listing_pc = "done"
    /\ Len(listing.items) = 2
    /\ Len(AddressLabels) = 2
    /\ Len(listing_out.sections) > 1
    /\ \E i \in 1..Len(ReturnedLines) : ReturnedLines[i] = fall_through_line
    /\ \E i \in 1..Len(ReturnedLines) :
          /\ Get(ReturnedLines[i], "banner", FALSE)
          /\ i > 2
    /\ \E i \in 1..Len(ReturnedLines) :
          ReturnedLines[i].html # listing_out.lines[i].html

\* ---------------------------------------------------------------------
\* Sections
\* ---------------------------------------------------------------------

\* the line list handed to _split_into_sections
AlignedLines ==
    LET valid == {listing.items[k].addr : k \in 1..Len(listing.items)}
    IN  _align_inline_comments(listing_out.lines, valid, sorted(valid))

ShowsBinaryAddr(line) == "binary_addr" \in DOMAIN line /\ line.binary_addr # None

\* C14: the sections partition the line list: their lines concatenated in
\* order are the line list, no section is empty, a banner line is only ever
\* the first line of a section, and has_binary_addr is true exactly when a
\* line of the section shows a secondary (ROM) address
C14_SectionsPartitionLines ==
    listing_pc = "done" =>
        /\ ReturnedLines = AlignedLines
        /\ \A s \in 1..Len(listing_out.sections) :
              LET section == listing_out.sections[s]
              IN  /\ section.lines # <<>>
                  /\ \A i \in 2..Len(section.lines) :
                        ~Get(section.lines[i], "banner", FALSE)
                  /\ section.has_binary_addr
                        <=> \E i \in 1..Len(section.lines) :
                               ShowsBinaryAddr(section.lines[i])

\* lines were split into at least two sections, one opening with a banner
\* and showing a ROM address on a later line only, another showing none
C14_Witness ==
    /\ listing_pc = "done"
    /\ \E s, t \in 1..Len(listing_out.sections) :
          /\ Get(listing_out.sections[s].lines[1], "banner", FALSE)
          /\ ~ShowsBinaryAddr(listing_out.sections[s].lines[1])
          /\ listing_out.sections[s].has_binary_addr
          /\ ~listing_out.sections[t].has_binary_addr
          /\ Len(listing_out.sections[t].lines) > 1

\* ---------------------------------------------------------------------
\* Fall-through markers
\* ---------------------------------------------------------------------

\* the positions of the items at which a subroutine starts
SubroutineStarts ==
    {k \in 1..Len(listing.items) :
        listing.items[k].addr \in DOMAIN by_addr(listing.subroutines)}

SubroutineAt(k) == by_addr(listing.subroutines)[listing.items[k].addr]

FallsThrough(k) == k \in SubroutineStarts /\ Get(SubroutineAt(k), "fall_through", FALSE)

\* the positions of the fall-through marker lines
MarkerLines ==
    {i \in 1..Len(ReturnedLines) : ReturnedLines[i] = fall_through_line}

\* whether a later item starts a subroutine, and the first such item
HasNextSubroutine(k) == \E n \in SubroutineStarts : n > k
NextSubroutine(k) == SetMin({n \in SubroutineStarts : n > k})

\* the position of the content line of item k, and of its first label line
\* or content line
ContentLine(k) == SetMax(AddressedLines(listing.items[k].addr))
FirstAddressedLine(k) == SetMin(AddressedLines(listing.items[k].addr))

IsBannerOf(line, k) ==
    /\ Get(line, "banner", FALSE)
    /\ line.id = "addr-" \o Hex4(listing.items[k].addr)

\* C15 as stated: every fall-through subroutine has exactly one marker line,
\* the line immediately before the banner line of the next subroutine, or the
\* last line of the output when it is the last subroutine
C15_MarkerDirectlyBeforeBanner ==
    listing_pc = "done" =>
        /\ Cardinality(MarkerLines) = Cardinality({k \in SubroutineStarts : FallsThrough(k)})
        /\ \A k \in SubroutineStarts :
              FallsThrough(k) =>
                 IF HasNextSubroutine(k)
                 THEN \E i \in MarkerLines :
                         /\ i < Len(ReturnedLines)
                         /\ IsBannerOf(ReturnedLines[i + 1], NextSubroutine(k))
                 ELSE Len(ReturnedLines) \in MarkerLines

\* C15 amended: every fall-through subroutine has exactly one marker line. It
\* comes after the content line of the item before the next item that starts
\* a subroutine and before that item's own lines: directly before the blank
\* separator that precedes the banner when that subroutine has a title,
\* before its label and content lines otherwise. When no later item starts a
\* subroutine it is the last line of the output.
C15_MarkerBeforeNextSubroutine ==
    listing_pc = "done" =>
        /\ Cardinality(MarkerLines) = Cardinality({k \in SubroutineStarts : FallsThrough(k)})
        /\ \A k \in SubroutineStarts :
              FallsThrough(k) =>
                 IF HasNextSubroutine(k)
                 THEN LET n == NextSubroutine(k)
                      IN  \E i \in MarkerLines :
                             /\ ContentLine(n - 1) < i
                             /\ i < FirstAddressedLine(n)
                             /\ MarkerLines \cap (ContentLine(k)..FirstAddressedLine(n)) = {i}
                             /\ HasTitle(by_addr(listing.subroutines), listing.items[n].addr)
                                   => /\ ReturnedLines[i + 1] = _empty_line
                                      /\ IsBannerOf(ReturnedLines[i + 2], n)
                 ELSE /\ Len(ReturnedLines) \in MarkerLines
                      /\ MarkerLines \cap (ContentLine(k)..Len(ReturnedLines))
                            = {Len(ReturnedLines)}

\* a fall-through subroutine was followed by a titled one, and the marker is
\* two lines above the banner
C15_Witness ==
    /\ listing_pc = "done"
    /\ \E k \in SubroutineStarts :
          /\ FallsThrough(k)
          /\ HasNextSubroutine(k)
          /\ \E i \in MarkerLines :
                /\ i + 2 <= Len(ReturnedLines)
                /\ ReturnedLines[i + 1] = _empty_line
                /\ IsBannerOf(ReturnedLines[i + 2], NextSubroutine(k))

\* ---------------------------------------------------------------------
\* Listings with optional fields left out
\* ---------------------------------------------------------------------

MaxDropped == 2

\* the optional fields read with a default of an empty list, string or dict
EmptyItemKeys ==
    {"labels", "comments_before", "comments_after", "comment_inline", "references",
     "operand", "bytes", "values", "string"}

OptionalItemKeys == EmptyItemKeys \cup {"binary_addr", "target", "target_label"}

OptionalSubroutineKeys == {"title", "description", "on_entry", "on_exit", "fall_through"}

\* an address that no item has
ForeignAddr == 4660

\* an item carrying every optional field, of each type and with a branch
\* target that is or is not an item address
FullItems ==
    { [addr |-> ListingAddr(1), type |-> type, mnemonic |-> <<"l", "d", "a">>,
       operand |-> <<"#", "g", "o">>, bytes |-> <<169, 1>>, values |-> <<0, 65>>,
       string |-> <<"h", "i">>, target |-> target, target_label |-> <<"g", "o">>,
       labels |-> <<<<"g", "o">>>>, references |-> <<ListingAddr(1), ForeignAddr>>,
       binary_addr |-> 36864, comment_inline |-> <<"o", "k">>,
       comments_before |-> <<<<"h", "i">>>>, comments_after |-> <<<<"&", "8", "0", "0", "0">>>>] :
      type \in {"code", "byte", "word", "string"}, target \in {ListingAddr(1), ForeignAddr} }

\* an item carrying no optional field
BareItems ==
    { [addr |-> ListingAddr(1), type |-> type, mnemonic |-> <<"r", "t", "s">>] :
      type \in {"code", "byte", "word", "string"} }

FullSubroutine ==
    [addr |-> ListingAddr(1), name |-> <<"s">>, title |-> <<"T">>,
     description |-> <<"d", "o", "e", "s">>,
     on_entry |-> << <<<<"a">>, <<"i", "n">>>> >>,
     on_exit |-> << <<<<"x">>, <<"o", "u", "t">>>> >>, fall_through |-> TRUE]

BareSubroutine == [addr |-> ListingAddr(1)]

\* the record without one key
Without(d, key) == [k \in DOMAIN d \ {key} |-> d[k]]

\* how many optional fields the listing lacks
Dropped ==
    Cardinality(OptionalItemKeys \ DOMAIN listing.items[1])
    + Cardinality(OptionalSubroutineKeys \ DOMAIN listing.subroutines[1])

InitOptional ==
    /\ IdleResolve
    /\ IdleLinkify
    /\ IdleWrap
    /\ IdleBreak
    /\ IdleParse
    /\ IdleDoc
    /\ IdleOperand
    /\ IdleData
    /\ \E item \in FullItems \cup BareItems, sub \in {FullSubroutine, BareSubroutine} :
          listing = [items |-> <<item>>, subroutines |-> <<sub>>]
    /\ listing_out = <<>>
    /\ listing_pc = "idle"

DropItemField(key) ==
    /\ listing_pc = "idle"
    /\ key \in DOMAIN listing.items[1]
    /\ Dropped < MaxDropped
    /\ listing' = [listing EXCEPT !.items[1] = Without(@, key)]
    /\ UNCHANGED <<listing_out, listing_pc>>
    /\ UNCHANGED <<varsResolve, varsLinkify, varsWrap, varsBreak, varsParse, varsDoc, varsOperand, varsData>>

DropSubroutineField(key) ==
    /\ listing_pc = "idle"
    /\ key \in DOMAIN listing.subroutines[1]
    /\ Dropped < MaxDropped
    /\ listing' = [listing EXCEPT !.subroutines[1] = Without(@, key)]
    /\ UNCHANGED <<listing_out, listing_pc>>
    /\ UNCHANGED <<varsResolve, varsLinkify, varsWrap, varsBreak, varsParse, varsDoc, varsOperand, varsData>>

NextOptional ==
    \/ \E key \in OptionalItemKeys : DropItemField(key)
    \/ \E key \in OptionalSubroutineKeys : DropSubroutineField(key)
    \/ ProcessDisassembly

SpecOptional == InitOptional /\ [][NextOptional]_vars

\* the listing with an absent field of its item, or of its subroutine, given
\* as empty
WithEmptyItemField(key) ==
    [listing EXCEPT !.items[1] = With(@, key, <<>>)]

WithEmptySubroutineField(key) ==
    [listing EXCEPT !.subroutines[1] =
        With(@, key, IF key = "fall_through" THEN FALSE ELSE <<>>)]

WithoutTarget ==
    [listing EXCEPT !.items[1] =
        [k \in DOMAIN @ \ {"target", "target_label"} |-> @[k]]]

\* C16: whichever optional fields of the item and of the subroutine are
\* absent, and whether or not references and branch target are item
\* addresses, the render completes with the item's label and content lines,
\* and it is the render of the same listing with the absent field empty
C16_AbsentFieldsAreEmpty ==
    (/\ listing_pc = "done"
     /\ Len(listing.items) = 1
     /\ Len(listing.subroutines) = 1)
    => LET item == listing.items[1]
           sub  == listing.subroutines[1]
       IN  /\ Cardinality(AddressedLines(item.addr)) = Len(Get(item, "labels", <<>>)) + 1
           /\ \A key \in EmptyItemKeys \ DOMAIN item :
                 listing_out.sections = process_disassembly(WithEmptyItemField(key))
           /\ \A key \in OptionalSubroutineKeys \ DOMAIN sub :
                 listing_out.sections = process_disassembly(WithEmptySubroutineField(key))
           /\ "binary_addr" \notin DOMAIN item
                 => /\ \A i \in 1..Len(ReturnedLines) : ~ShowsBinaryAddr(ReturnedLines[i])
                    /\ \A s \in 1..Len(listing_out.sections) :
                          ~listing_out.sections[s].has_binary_addr
           /\ ("target" \notin DOMAIN item \/ "target_label" \notin DOMAIN item)
                 => listing_out.sections = process_disassembly(WithoutTarget)

\* a code item without bytes whose branch target and one reference are not
\* item addresses was rendered under a subroutine without a title
C16_Witness ==
    /\ listing_pc = "done"
    /\ Len(listing.items) = 1
    /\ Len(listing.subroutines) = 1
    /\ listing.items[1].type = "code"
    /\ OptionalItemKeys \ DOMAIN listing.items[1] = {"bytes"}
    /\ listing.items[1].target = ForeignAddr
    /\ OptionalSubroutineKeys \ DOMAIN listing.subroutines[1] = {"title"}
    /\ \E i \in 1..Len(ReturnedLines) :
          \E k \in 1..Len(ReturnedLines[i].html) :
             ReturnedLines[i].html[k] = ExtLabelOpen(ForeignAddr)

\* ---------------------------------------------------------------------
\* The lines _wrap_text returns
\* ---------------------------------------------------------------------

\* C17: _wrap_text never returns an empty list, whatever the text and the
\* budgets, and for the empty text it returns exactly one line, the empty
\* string
C17_WrapNeverEmpty ==
    wrap.pc = "done" =>
        /\ wrap.result # <<>>
        /\ wrap_args.text = <<>> => wrap.result = << <<>> >>

\* the empty text was wrapped, no line was collected and the default applied
C17_Witness ==
    /\ wrap.pc = "done"
    /\ wrap_args.text = <<>>
    /\ wrap.result_lines = <<>>
    /\ wrap.result = << <<>> >>

\* ---------------------------------------------------------------------
\* The lines of one item, in order
\* ---------------------------------------------------------------------

\* what kind of line a returned line is
LineKind(line) ==
    IF line = fall_through_line THEN "marker"
    ELSE IF Get(line, "banner", FALSE) THEN "banner"
    ELSE IF "addr_id" \in DOMAIN line
    THEN IF IsLabelLine(line) THEN "label" ELSE "content"
    ELSE "plain"

\* the lines expected of a list of comments: one per row of each comment,
\* blank for a blank row, "; " and the row otherwise
ExpectedCommentLines(comments) ==
    Flatten([c \in 1..Len(comments) |->
        LET rows == split_lines(comments[c])
        IN  [r \in 1..Len(rows) |->
                [kind |-> "plain", of |-> None,
                 text |-> IF strip(rows[r]) = <<>> THEN <<>>
                          ELSE <<";", " ">> \o rows[r]]]])

\* the lines expected of item k
ExpectedItemLines(k) ==
    LET item      == listing.items[k]
        addr_id   == "addr-" \o Hex4(item.addr)
        titled    == HasTitle(by_addr(listing.subroutines), item.addr)
        surviving == SelectSeq(Get(item, "comments_before", <<>>),
                         LAMBDA c : ~_is_reference_comment(c) /\ ~_is_banner_line(c))
        shown     == IF titled
                     THEN SelectSeq(surviving,
                              LAMBDA c : ~StartsWith(c, SubroutineAt(k).title))
                     ELSE surviving
        labels    == Get(item, "labels", <<>>)
    IN  (IF surviving # <<>> \/ titled
         THEN <<[kind |-> "plain", of |-> None, text |-> <<>>]>> ELSE <<>>)
        \o (IF titled THEN <<[kind |-> "banner", of |-> addr_id, text |-> <<>>]>>
            ELSE <<>>)
        \o ExpectedCommentLines(shown)
        \o [n \in 1..Len(labels) |->
               [kind |-> "label", of |-> addr_id, text |-> <<".">> \o labels[n]]]
        \o <<[kind |-> "content", of |-> addr_id, text |-> <<>>]>>
        \o ExpectedCommentLines(Get(item, "comments_after", <<>>))

\* the fall-through marker due before item k
ExpectedMarker(k) ==
    IF /\ k \in SubroutineStarts
       /\ \E j \in SubroutineStarts :
             /\ j < k
             /\ FallsThrough(j)
             /\ NextSubroutine(j) = k
    THEN <<[kind |-> "marker", of |-> None, text |-> <<>>]>> ELSE <<>>

ExpectedLines ==
    Flatten([k \in 1..Len(listing.items) |-> ExpectedMarker(k) \o ExpectedItemLines(k)])
    \o (IF \E j \in SubroutineStarts : FallsThrough(j) /\ ~HasNextSubroutine(j)
        THEN <<[kind |-> "marker", of |-> None, text |-> <<>>]>> ELSE <<>>)

MatchesExpected(line, expected) ==
    /\ LineKind(line) = expected.kind
    /\ CASE expected.kind = "plain" -> VisibleText(line.html) = expected.text
         [] expected.kind = "label" ->
                /\ line.addr_id = expected.of
                /\ StartsWith(VisibleText(line.html), expected.text)
         [] expected.kind = "content" -> line.addr_id = expected.of
         [] expected.kind = "banner" -> line.id = expected.of
         [] OTHER -> TRUE

\* C18: the lines of an item are, in order: a blank separator exactly when a
\* comment before it survives filtering or it starts a titled subroutine;
\* the banner and the surviving comments not beginning with the title, or
\* all surviving comments; one line per label in label order; one content
\* line; the comments_after lines
C18_ItemLinesInOrder ==
    listing_pc = "done" =>
        /\ Len(ReturnedLines) = Len(ExpectedLines)
        /\ \A i \in 1..Len(ReturnedLines) :
              MatchesExpected(ReturnedLines[i], ExpectedLines[i])

\* a titled subroutine started at an item with two comments before it, one
\* beginning with the title, and a comment after it
C18_Witness ==
    /\ listing_pc = "done"
    /\ \E k \in 1..Len(listing.items) :
          /\ HasTitle(by_addr(listing.subroutines), listing.items[k].addr)
          /\ Len(Get(listing.items[k], "comments_before", <<>>)) = 2
          /\ \E c \in 1..2 :
                StartsWith(listing.items[k].comments_before[c], SubroutineAt(k).title)
          /\ Get(listing.items[k], "comments_after", <<>>) # <<>>
          /\ Len(ExpectedItemLines(k)) = 7
    /\ \E k \in 1..Len(listing.items) :
          Len(Get(listing.items[k], "labels", <<>>)) = 2

\* ---------------------------------------------------------------------
\* The width budget of an item
\* ---------------------------------------------------------------------

\* the width each item was rendered with, in item order
RenderedWidths ==
    LET content == SelectSeq(listing_out.lines, LAMBDA line : "_max_width" \in DOMAIN line)
    IN  [k \in 1..Len(content) |-> content[k]._max_width]

TitledStarts ==
    {k \in 1..Len(listing.items) :
        HasTitle(by_addr(listing.subroutines), listing.items[k].addr)}

\* the items from the most recent titled subroutine start at or before item
\* k up to the next titled subroutine start; none before the first start
SectionItems(k) ==
    IF \E t \in TitledStarts : t <= k
    THEN LET start == SetMax({t \in TitledStarts : t <= k})
             later == {t \in TitledStarts : t > k}
             stop  == IF later = {} THEN Len(listing.items) ELSE SetMin(later) - 1
         IN  start..stop
    ELSE {}

\* C19: an item is rendered with the narrow budget exactly when an item of
\* the titled subroutine section it lies in carries binary_addr; every other
\* item, and every item before the first titled subroutine, is rendered with
\* the normal budget
C19_NarrowBudgetInRelocatedSections ==
    listing_pc = "done" =>
        /\ Len(RenderedWidths) = Len(listing.items)
        /\ \A k \in 1..Len(listing.items) :
              RenderedWidths[k] =
                 IF \E m \in SectionItems(k) : "binary_addr" \in DOMAIN listing.items[m]
                 THEN RELOCATED_MAX_WIDTH ELSE CONTENT_MAX_WIDTH

\* an item without binary_addr that starts a titled subroutine was rendered
\* narrow because the next item, in its section, carries binary_addr
C19_Witness ==
    /\ listing_pc = "done"
    /\ Len(listing.items) = 2
    /\ TitledStarts = {1}
    /\ "binary_addr" \notin DOMAIN listing.items[1]
    /\ "binary_addr" \in DOMAIN listing.items[2]
    /\ RenderedWidths = <<RELOCATED_MAX_WIDTH, RELOCATED_MAX_WIDTH>>

\* ---------------------------------------------------------------------
\* _find_break_position on typed words
\* ---------------------------------------------------------------------

MaxBreakLen == 4

\* a letter, a digit, two separators and a character that is neither
BreakChars == {"a", "1", "-", "/", "."}

\* budgets that are clamped, that cut the word, and that exceed it
BreakBudgets == -1..(MaxBreakLen + 1)

InitBreak ==
    /\ IdleResolve
    /\ IdleLinkify
    /\ IdleWrap
    /\ \E budget \in BreakBudgets : break_args = [word |-> <<>>, budget |-> budget]
    /\ break_pos = 0
    /\ break_pc = "idle"
    /\ IdleParse
    /\ IdleDoc
    /\ IdleRest

TypeBreakWord(c) ==
    /\ break_pc = "idle"
    /\ Len(break_args.word) < MaxBreakLen
    /\ break_args' = [break_args EXCEPT !.word = Append(@, c)]
    /\ UNCHANGED <<break_pos, break_pc>>
    /\ UNCHANGED <<varsResolve, varsLinkify, varsWrap, varsParse, varsDoc, varsOperand, varsData, varsListing>>

FindBreakPosition ==
    /\ break_pc = "idle"
    /\ break_pos' = _find_break_position(break_args.word, break_args.budget)
    /\ break_pc' = "done"
    /\ UNCHANGED break_args
    /\ UNCHANGED <<varsResolve, varsLinkify, varsWrap, varsParse, varsDoc, varsOperand, varsData, varsListing>>

NextBreak ==
    \/ \E c \in BreakChars : TypeBreakWord(c)
    \/ FindBreakPosition

SpecBreak == InitBreak /\ [][NextBreak]_vars

\* letter, digit or other
CharClass(c) ==
    IF c \in UpperLetters \cup LowerLetters THEN "letter"
    ELSE IF c \in Digits THEN "digit"
    ELSE "other"

\* min(b, len(word)) for the budget b clamped to at least 1
BreakLimit == Min(Max(break_args.budget, 1), Len(break_args.word))

\* the 0-based indexes i, 1 <= i <= limit - 1, holding a separator
SeparatorIndexes ==
    {i \in 1..(BreakLimit - 1) : break_args.word[i + 1] \in {"|", "_", "/", "-"}}

\* and those where the classes of word[i - 1] and word[i] differ
TransitionIndexes ==
    {i \in 1..(BreakLimit - 1) :
        CharClass(break_args.word[i]) # CharClass(break_args.word[i + 1])}

\* C20: for a non-empty word, _find_break_position returns the position just
\* after the rightmost separator in range if there is one, otherwise the
\* rightmost class transition in range, otherwise min(b, len(word)); the
\* position lies between 1 and min(b, len(word))
C20_BreakPosition ==
    (break_pc = "done" /\ break_args.word # <<>>) =>
        /\ break_pos =
              IF SeparatorIndexes # {} THEN SetMax(SeparatorIndexes) + 1
              ELSE IF TransitionIndexes # {} THEN SetMax(TransitionIndexes)
              ELSE BreakLimit
        /\ 1 <= break_pos
        /\ break_pos <= BreakLimit

\* a break was found at a digit-to-other transition, left of which lies a
\* letter-to-digit transition, in a word with no separator in range
C20_Witness ==
    /\ break_pc = "done"
    /\ break_args = [word |-> <<"a", "1", ".", "-">>, budget |-> 3]
    /\ break_pos = 2

\* ---------------------------------------------------------------------
\* The text around the replacements
\* ---------------------------------------------------------------------

\* the text read left to right from 0-based offset p, with the span of each
\* replacement given by its replacement and everything else copied
RECURSIVE spliced_from(_, _, _)
spliced_from(text, rs, p) ==
    IF p >= Len(text) THEN <<>>
    ELSE LET here == {k \in 1..Len(rs) : rs[k].start = p /\ rs[k].end > p}
         IN  IF here # {}
             THEN rs[SetMin(here)].replacement \o spliced_from(text, rs, rs[SetMin(here)].end)
             ELSE <<text[p + 1]>> \o spliced_from(text, rs, p + 1)

\* two replacements select spans that share a character
SpansOverlap(rs) ==
    \E j, k \in 1..Len(rs) :
        j # k /\ rs[j].start < rs[k].end /\ rs[k].start < rs[j].end

\* C21: the text returned is the input with each selected span replaced by
\* its complete link and every character outside the selected spans
\* unchanged and in place, whatever the list of link specs; in
\* apply_glossary_links and in _apply_address_links
C21_OnlySelectedSpansReplaced ==
    /\ link_pc = "glossary" =>
          glossary_out.text =
              spliced_from(RenderDoc(html_doc), glossary_out.replacements, 0)
    /\ link_pc = "address" =>
          address_out.text =
              spliced_from(RenderDoc(html_doc), address_out.replacements, 0)

\* C21 for link specs that select spans sharing no character
C21_DisjointSpansReplaced ==
    /\ (link_pc = "glossary" /\ ~SpansOverlap(glossary_out.replacements)) =>
          glossary_out.text =
              spliced_from(RenderDoc(html_doc), glossary_out.replacements, 0)
    /\ (link_pc = "address" /\ ~SpansOverlap(address_out.replacements)) =>
          address_out.text =
              spliced_from(RenderDoc(html_doc), address_out.replacements, 0)

\* ---------------------------------------------------------------------
\* Inline comments after alignment
\* ---------------------------------------------------------------------

\* the characters of a text other than spaces and line breaks
NonSpace(text) == SelectSeq(text, LAMBDA c : c \notin {" ", "\n"})

\* the item whose content line is returned line i has an inline comment
HasInlineComment(i) ==
    \E k \in 1..Len(listing.items) :
        /\ i = ContentLine(k)
        /\ Get(listing.items[k], "comment_inline", <<>>) # <<>>

InlineCommentAt(i) ==
    listing.items[CHOOSE k \in 1..Len(listing.items) : i = ContentLine(k)].comment_inline

\* C22: no returned line carries _inline_comment or _max_width, and every
\* non-empty inline comment appears exactly once, appended to the content
\* line of its item; every other line is returned as built
C22_InlineCommentsMergedOnce ==
    listing_pc = "done" =>
        /\ Len(ReturnedLines) = Len(listing_out.lines)
        /\ \A i \in 1..Len(ReturnedLines) :
              LET html  == ReturnedLines[i].html
                  built == listing_out.lines[i].html
                  added == SubSeq(html, Len(built) + 1, Len(html))
                  opens == {p \in 1..Len(added) : added[p] = CommentOpen}
              IN  /\ "_inline_comment" \notin DOMAIN ReturnedLines[i]
                  /\ "_max_width" \notin DOMAIN ReturnedLines[i]
                  /\ StartsWith(html, built)
                  /\ IF HasInlineComment(i)
                     THEN /\ Cardinality(opens) = 1
                          /\ \A p \in 1..Len(added) :
                                p < SetMin(opens) => added[p] = " "
                          /\ added[Len(added)] = SpanClose
                          /\ NonSpace(VisibleText(added))
                                = NonSpace(<<";">> \o InlineCommentAt(i))
                     ELSE added = <<>>

\* two items with inline comments were rendered into one block, the shorter
\* content line padded further than the longer
C22_Witness ==
    /\ listing_pc = "done"
    /\ Len(listing.items) = 2
    /\ HasInlineComment(ContentLine(1))
    /\ HasInlineComment(ContentLine(2))
    /\ ContentLine(2) = ContentLine(1) + 1
    /\ Len(ReturnedLines[ContentLine(1)].html) - Len(listing_out.lines[ContentLine(1)].html)
          # Len(ReturnedLines[ContentLine(2)].html) - Len(listing_out.lines[ContentLine(2)].html)

\* ---------------------------------------------------------------------
\* Blocks
\* ---------------------------------------------------------------------

\* the blocks _align_inline_comments works on, as line positions
ListingBlocks == _split_into_blocks(listing_out.lines)

StartsBlock(line) == IsLabelLine(line) \/ Get(line, "banner", FALSE)

MaxRefs == 3

\* the labelled item, a data item, another code item
ReferencedListing(labels) ==
    [items |-> <<[addr |-> ListingAddr(1), type |-> "code", mnemonic |-> <<"j", "m", "p">>,
                  labels |-> labels, references |-> <<>>],
                 [addr |-> ListingAddr(2), type |-> "byte", values |-> <<0>>],
                 [addr |-> ListingAddr(3), type |-> "code", mnemonic |-> <<"r", "t", "s">>]>>,
     subroutines |-> <<>>]

\* referencing addresses: a code item (twice), a data item, no item
RefAddrs == {ListingAddr(1), ListingAddr(2), ListingAddr(3), ForeignAddr}

InitRefs ==
    /\ IdleResolve
    /\ IdleLinkify
    /\ IdleWrap
    /\ IdleBreak
    /\ IdleParse
    /\ IdleDoc
    /\ IdleOperand
    /\ IdleData
    /\ \E labels \in {<<<<"g", "o">>>>, <<<<"g", "o">>, <<"l", "2">>>>} :
          listing = ReferencedListing(labels)
    /\ listing_out = <<>>
    /\ listing_pc = "idle"

AddReference(ref_addr) ==
    /\ listing_pc = "idle"
    /\ Len(listing.items[1].references) < MaxRefs
    /\ listing' = [listing EXCEPT !.items[1].references = Append(@, ref_addr)]
    /\ UNCHANGED <<listing_out, listing_pc>>
    /\ UNCHANGED <<varsResolve, varsLinkify, varsWrap, varsBreak, varsParse, varsDoc, varsOperand, varsData>>

NextRefs ==
    \/ \E ref_addr \in RefAddrs : AddReference(ref_addr)
    \/ ProcessDisassembly

SpecRefs == InitRefs /\ [][NextRefs]_vars

\* the popup of a label line: what lies between the label name and the end
\* of the label span
PopupOf(line, label) == SubSeq(line.html, 3 + Len(label), Len(line.html) - 1)

\* the positions of the entries of a popup, in order, and the entry at one
EntryStarts(popup) ==
    sorted({p \in 1..Len(popup) : \E a \in RefAddrs : popup[p] = RefAnchorOpen(a)})

EntryAt(popup, p) ==
    LET close == SetMin({q \in (p + 1)..Len(popup) : popup[q] = AnchorClose})
    IN  [addr |-> CHOOSE a \in RefAddrs : popup[p] = RefAnchorOpen(a),
         text |-> SubSeq(popup, p + 1, close - 1)]

PopupEntries(popup) ==
    [k \in 1..Len(EntryStarts(popup)) |-> EntryAt(popup, EntryStarts(popup)[k])]

\* what an entry shows after the address: the mnemonic of the code item at
\* that address in upper case, or "ref"
ExpectedMnemonic(ref_addr) ==
    IF \E k \in 1..Len(listing.items) :
          listing.items[k].addr = ref_addr /\ listing.items[k].type = "code"
    THEN upper(listing.items[CHOOSE k \in 1..Len(listing.items) :
                                 listing.items[k].addr = ref_addr].mnemonic)
    ELSE <<"r", "e", "f">>

\* the listing with references j and j + 1 of its first item exchanged
WithReferencesSwapped(j) ==
    [listing EXCEPT !.items[1].references =
        [k \in 1..Len(@) |-> IF k = j THEN @[j + 1] ELSE IF k = j + 1 THEN @[j] ELSE @[k]]]

\* C24: the popup of every label line has a badge with the number of
\* references and one entry per reference, in ascending address order, each
\* showing the address and the upper-cased mnemonic of the code item there or
\* "ref"; exchanging two references leaves the whole output as it is
C24_PopupSortedAndComplete ==
    (listing_pc = "done" /\ listing.items[1].references # <<>>) =>
        LET item  == listing.items[1]
            refs  == item.references
            lines == SelectSeq(ReturnedLines, IsLabelLine)
        IN  /\ Len(lines) = Len(item.labels)
            /\ \A n \in 1..Len(lines) :
                  LET popup   == PopupOf(lines[n], item.labels[n])
                      entries == PopupEntries(popup)
                  IN  /\ Len(entries) = Len(refs)
                      /\ \A k \in 1..Len(entries) - 1 :
                            entries[k].addr <= entries[k + 1].addr
                      /\ \A a \in RefAddrs :
                            Cardinality({k \in 1..Len(entries) : entries[k].addr = a})
                               = Cardinality({k \in 1..Len(refs) : refs[k] = a})
                      /\ \A k \in 1..Len(entries) :
                            entries[k].text =
                               <<LeftArrow, " ">> \o Hex4Chars(entries[k].addr) \o <<" ">>
                               \o ExpectedMnemonic(entries[k].addr)
                      /\ popup =
                            <<RefBadgeOpen, LeftArrow>> \o str(Len(refs))
                            \o <<SpanClose, RefPopupOpen>>
                            \o Flatten([k \in 1..Len(entries) |->
                                   <<RefAnchorOpen(entries[k].addr)>> \o entries[k].text
                                   \o <<AnchorClose>>])
                            \o <<SpanClose>>
            /\ \A j \in 1..Len(refs) - 1 :
                  process_disassembly(WithReferencesSwapped(j)) = listing_out.sections

\* three references given in descending order, one of them twice and one to
\* no item, were rendered on two label lines
C24_Witness ==
    /\ listing_pc = "done"
    /\ listing.items[1].references = <<ListingAddr(3), ListingAddr(3), ForeignAddr>>
    /\ Len(listing.items[1].labels) = 2
    /\ PopupEntries(PopupOf(ReturnedLines[2], listing.items[1].labels[2]))[1].addr = ForeignAddr


(***************************************************************************)
(* parse_glossary on glossary texts written line by line.                  *)
(***************************************************************************)
MaxGlossaryLines == 5

\* an H1 heading, a category heading, a term heading without and with an
\* expansion, a definition line, an indented text line and a blank line
GlossaryLines ==
    { <<"#", " ", "H">>,
      <<"#", "#", " ", "C">>,
      <<"*", "*", "T", "*", "*">>,
      <<"*", "*", "U", "*", "*", " ", "(", "E", ")">>,
      <<":", " ", "b">>,
      <<" ", "e">>,
      <<>> }

\* md_text, the lines written so far joined by newlines
md_text == join(<<"\n">>, glossary_md)

InitGlossary ==
    /\ IdleResolve
    /\ IdleLinkify
    /\ IdleWrap
    /\ IdleBreak
    /\ glossary_md = <<>>
    /\ glossary = <<>>
    /\ parse_pc = "idle"
    /\ IdleDoc
    /\ IdleRest

WriteGlossaryLine(line) ==
    /\ parse_pc = "idle"
    /\ Len(glossary_md) < MaxGlossaryLines
    /\ glossary_md' = Append(glossary_md, line)
    /\ UNCHANGED <<glossary, parse_pc>>
    /\ UNCHANGED <<varsResolve, varsLinkify, varsWrap, varsBreak, varsDoc, varsOperand, varsData, varsListing>>

ParseGlossary ==
    /\ parse_pc = "idle"
    /\ glossary' = parse_glossary(md_text)
    /\ parse_pc' = "done"
    /\ UNCHANGED glossary_md
    /\ UNCHANGED <<varsResolve, varsLinkify, varsWrap, varsBreak, varsDoc, varsOperand, varsData, varsListing>>

NextGlossary ==
    \/ \E line \in GlossaryLines : WriteGlossaryLine(line)
    \/ ParseGlossary

SpecGlossary == InitGlossary /\ [][NextGlossary]_vars

\* the lines of the text, and where its headings are
SourceLines == split_lines(md_text)

CategoryHeadings == {i \in 1..Len(SourceLines) : IsCategoryHeading(SourceLines[i])}

TermHeadings ==
    {i \in 1..Len(SourceLines) :
        /\ ~IsH1(SourceLines[i])
        /\ ~IsCategoryHeading(SourceLines[i])
        /\ \E c \in CategoryHeadings : c < i
        /\ _TERM_RE_match(SourceLines[i]).matched}

\* the term headings under the c-th category heading, in source order
HeadingsUnder(c) ==
    sorted({i \in TermHeadings : Cardinality({h \in CategoryHeadings : h < i}) = c})

\* the lines of the entry whose term heading is line i: those up to the next
\* term or category heading, H1 headings left out
EntryLines(i) ==
    LET later == {j \in (CategoryHeadings \cup TermHeadings) : j > i}
        last  == IF later = {} THEN Len(SourceLines) ELSE SetMin(later) - 1
        NotH1(line) == ~IsH1(line)
    IN  SelectSeq(SubSeq(SourceLines, i + 1, last), NotH1)

DefinitionLines(entry_lines) ==
    {j \in 1..Len(entry_lines) : StartsWith(entry_lines[j], <<":", " ">>)}

\* the first blank line after the first definition line, or one past the end
BriefEnd(entry_lines) ==
    LET first  == SetMin(DefinitionLines(entry_lines))
        blanks == {j \in (first + 1)..Len(entry_lines) : strip(entry_lines[j]) = <<>>}
    IN  IF blanks = {} THEN Len(entry_lines) + 1 ELSE SetMin(blanks)

\* the brief of an entry: its definition line and the continuation lines
\* before the first blank line after it
ExpectedBrief(entry_lines) ==
    IF DefinitionLines(entry_lines) = {} THEN <<>>
    ELSE LET first == SetMin(DefinitionLines(entry_lines))
             Piece(line) == IF StartsWith(line, <<":", " ">>)
                            THEN SubSeq(line, 3, Len(line))
                            ELSE strip(line)
         IN  join(<<" ">>, [j \in 1..(BriefEnd(entry_lines) - first) |->
                               Piece(entry_lines[first + j - 1])])

\* the extended text of an entry: every line after that blank line
ExpectedExtended(entry_lines) ==
    IF DefinitionLines(entry_lines) = {} THEN <<>>
    ELSE LET later == SubSeq(entry_lines, BriefEnd(entry_lines) + 1, Len(entry_lines))
             kept  == [j \in 1..Len(later) |->
                          IF strip(later[j]) = <<>> THEN <<>> ELSE later[j]]
         IN  join(<<"\n">>, drop_trailing_blank(drop_leading_blank(kept)))

\* an entry with a definition line after the blank line that ends its brief
DefinitionAfterBlank(entry_lines) ==
    \E j \in DefinitionLines(entry_lines) : j > BriefEnd(entry_lines)

EntriesInSourceOrder ==
    /\ Len(glossary.categories) = Cardinality(CategoryHeadings)
    /\ \A c \in 1..Len(glossary.categories) :
           LET headings == HeadingsUnder(c)
               terms    == glossary.categories[c].terms
           IN  /\ Len(terms) = Len(headings)
               /\ \A k \in 1..Len(headings) :
                      terms[k].term = _TERM_RE_match(SourceLines[headings[k]]).term

\* C25: every term heading under a category yields exactly one entry of that
\* category, in source order; the brief of an entry is its definition line
\* and the continuation lines before the first blank line after it, and every
\* later line of the entry goes to extended, none to brief.
C25_BriefEndsAtBlankLine ==
    parse_pc = "done" =>
        /\ EntriesInSourceOrder
        /\ \A c \in 1..Len(glossary.categories) :
               \A k \in 1..Len(HeadingsUnder(c)) :
                   k <= Len(glossary.categories[c].terms) =>
                       LET entry == glossary.categories[c].terms[k]
                           entry_lines == EntryLines(HeadingsUnder(c)[k])
                       IN  /\ entry.brief = ExpectedBrief(entry_lines)
                           /\ entry.extended = ExpectedExtended(entry_lines)

\* what parse_glossary keeps of C25: one entry per term heading in source
\* order, and C25's brief and extended for every entry that has no
\* definition line after the blank line
C25_HoldsWithoutLateDefinition ==
    parse_pc = "done" =>
        /\ EntriesInSourceOrder
        /\ \A c \in 1..Len(glossary.categories) :
               \A k \in 1..Len(HeadingsUnder(c)) :
                   LET entry == glossary.categories[c].terms[k]
                       entry_lines == EntryLines(HeadingsUnder(c)[k])
                   IN  ~DefinitionAfterBlank(entry_lines) =>
                           /\ entry.brief = ExpectedBrief(entry_lines)
                           /\ entry.extended = ExpectedExtended(entry_lines)


(***************************************************************************)
(* Specification SpecWrapFair: SpecWrap, where a call of _wrap_text that   *)
(* has started keeps running: the for loop and the forced-split loop are   *)
(* taken whenever they are enabled.  Typing and the call itself are left   *)
(* to the caller and get no fairness.                                      *)
(***************************************************************************)
SpecWrapFair ==
    /\ InitWrap
    /\ [][NextWrap]_vars
    /\ WF_vars(WrapFor)
    /\ WF_vars(WrapWhile)

\* a pass of the forced-split loop: the test succeeds and the body runs
ForcedSplitPass ==
    /\ wrap.pc = "while"
    /\ Len(wrap.word) > wrap.budget
    /\ wrap'.pc = "while"

\* a pass removes at least one character from the word, or it leaves a
\* budget below 1 for a continuation budget of at least 1
PassMakesProgress ==
    ForcedSplitPass =>
        \/ Len(wrap'.word) < Len(wrap.word)
        \/ /\ wrap.budget < 1
           /\ wrap'.budget = wrap.continuation_budget
           /\ wrap'.budget >= 1

\* C26: _wrap_text terminates for every text and all integer budgets, zero
\* and negative ones included: once called it returns, and each pass of the
\* forced-split loop either removes at least one character from the word or
\* moves to a continuation budget of at least 1.
C26_WrapTerminates ==
    /\ (wrap.pc # "idle") ~> (wrap.pc = "done")
    /\ [][PassMakesProgress]_vars

\* a call returned after a pass that removed no character: the empty text
\* under a negative first-line budget
C26_Witness ==
    /\ wrap.pc = "done"
    /\ wrap_args.first_line_budget < 0
    /\ wrap_args.text = <<>>
    /\ wrap.result = << <<>> >>
    /\ wrap.budget = wrap.continuation_budget


\* ---------------------------------------------------------------------
\* What _wrap_text keeps of the text
\* ---------------------------------------------------------------------

WithoutSpaces(text) == SelectSeq(text, LAMBDA c : c # " ")

\* the number of non-space characters in the first j returned lines
CharsThrough(j) == Len(WithoutSpaces(Flatten(SubSeq(wrap.result, 1, j))))

\* the returned line that holds the p-th non-space character
LineOfChar(p) == SetMin({j \in 1..Len(wrap.result) : CharsThrough(j) >= p})

\* the words of the text, and the non-space characters before word k
WrapWords == split(wrap_args.text)

CharsBeforeWord(k) == Len(Flatten(SubSeq(WrapWords, 1, k - 1)))

\* word k has a line break inside it
WordBroken(k) ==
    /\ WrapWords[k] # <<>>
    /\ LineOfChar(CharsBeforeWord(k) + 1)
           # LineOfChar(CharsBeforeWord(k) + Len(WrapWords[k]))

\* C27: the non-space characters of the returned lines, read in order, are
\* the non-space characters of the text in the same order, and a line break
\* lies inside a word only if the word begins a line (a fresh line) and is
\* longer than the budget of that line.
C27_WrapKeepsContent ==
    wrap.pc = "done" =>
        /\ WithoutSpaces(Flatten(wrap.result)) = WithoutSpaces(wrap_args.text)
        /\ \A k \in 1..Len(WrapWords) :
               WordBroken(k) =>
                   LET first == LineOfChar(CharsBeforeWord(k) + 1)
                   IN  /\ CharsThrough(first - 1) = CharsBeforeWord(k)
                       /\ Len(WrapWords[k]) > WrapLineBudget(first)

\* two words of the same length: the first fits the first line and is kept
\* whole, the second does not fit a continuation line and is broken
C27_Witness ==
    /\ wrap.pc = "done"
    /\ wrap_args.text = <<"a", "1", " ", "a", "1">>
    /\ wrap_args.first_line_budget = 2
    /\ wrap.continuation_budget = 1
    /\ wrap.result = << <<"a", "1">>, <<"a">>, <<"1">> >>
    /\ ~WordBroken(1)
    /\ WordBroken(2)


\* ---------------------------------------------------------------------
\* The pre-scan and the post-scan
\* ---------------------------------------------------------------------

\* the start addresses that the pre-scan marked relocated
RelocatedStarts ==
    _find_relocated_sections(listing.items, by_addr(listing.subroutines))

\* the sections that begin with a subroutine banner
BannerSections ==
    {s \in 1..Len(listing_out.sections) :
        Get(listing_out.sections[s].lines[1], "banner", FALSE)}

\* the item whose banner opens section s
BannerItem(s) ==
    CHOOSE k \in 1..Len(listing.items) : IsBannerOf(listing_out.sections[s].lines[1], k)

\* C28: for every section that begins with a subroutine banner,
\* has_binary_addr is true exactly when the pre-scan marked the start address
\* of that subroutine relocated, that is exactly when the items of the
\* section were rendered with the narrow width budget.
C28_PreScanAgreesWithPostScan ==
    listing_pc = "done" =>
        /\ Cardinality(BannerSections) = Cardinality(TitledStarts)
        /\ \A s \in BannerSections :
              /\ \E k \in 1..Len(listing.items) :
                    IsBannerOf(listing_out.sections[s].lines[1], k)
              /\ listing_out.sections[s].has_binary_addr
                    <=> listing.items[BannerItem(s)].addr \in RelocatedStarts
              /\ \A m \in SectionItems(BannerItem(s)) :
                    listing_out.sections[s].has_binary_addr
                       <=> RenderedWidths[m] = RELOCATED_MAX_WIDTH

\* two sections that begin with a banner: the first one relocated, with its
\* ROM address shown, the second one not
C28_Witness ==
    /\ listing_pc = "done"
    /\ Len(listing.items) >= 2
    /\ {1, 2} \subseteq TitledStarts
    /\ "binary_addr" \in DOMAIN listing.items[1]
    /\ "binary_addr" \notin DOMAIN listing.items[2]
    /\ RelocatedStarts = {listing.items[1].addr}
    /\ \E s, t \in BannerSections :
          /\ BannerItem(s) = 1
          /\ BannerItem(t) = 2
          /\ listing_out.sections[s].has_binary_addr
          /\ ~listing_out.sections[t].has_binary_addr

=========================================================================
